---- MODULE Spec2Model ----
(***************************************************************************)
(* A model of TinyTailor's document-rewriting core: the tag-region scanner *)
(* and image rewriter (modules/image-optimizer/index.ts), the derivative   *)
(* generator (sharp-processor.ts), the two text rewriters                  *)
(* (modules/text-processor), the CSS background-image rewriter             *)
(* (modules/css-optimizer) and the per-document driver (core/processor).   *)
(*                                                                         *)
(* Markup is a sequence of tokens (one token per tag or text run) for the  *)
(* image rewriter, and a sequence of characters for the text and CSS       *)
(* rewriters, whose regular expressions work on single characters.         *)
(***************************************************************************)
EXTENDS Integers, Sequences, FiniteSets, TLC

VARIABLES
    \* tag-region scanner
    source,          \* the text handed to the scanner (token sequence)
    pictureBlocks,   \* result of findPictureBlocks(source)
    standaloneImgs,  \* result of findStandaloneImages(source)
    scanned,         \* TRUE once both scans have run
    \* text rewriters (hanging prepositions, superscripts)
    content,         \* the document text (character sequence)
    original,        \* the text before the first processText call
    replacements,    \* the replacement count reported by the last call
    textRuns,        \* number of processText calls made so far
    \* CSS background-image rewriter
    cssContent,      \* the stylesheet text (token sequence)
    cssOriginal,     \* the stylesheet before the first processBackgroundImages
    cssFs,           \* the files next to the stylesheet: path -> file
    cssCreated,      \* the paths created by processBackgroundImages calls
    cssResult,       \* the CssWebPResult counters of the last call
    cssRuns,         \* number of processBackgroundImages calls made so far
    \* batch driver (TinyTailorProcessor.processFiles)
    batchFiles,      \* files.length, the documents are 1..batchFiles
    batchModules,    \* selectedModules together with the enabled flags
    batchPc,         \* "scan", "loop", "size", "summary", "returned", "threw"
    batchNext,       \* the document the loop handles next
    batchResult,     \* the ProcessingResult being built
    batchThrew,      \* the documents in whose processing a stage threw
    batchCounted,    \* the documents that incremented changedFiles
    batchVisited,    \* the documents handed to the loop body, in order
    batchFailed,     \* the documents in which a stage failed, caught anywhere
    \* PNG recompression (SharpProcessor.recompressPng)
    pngFile,         \* the file at srcPath
    pngOptions,      \* sizeThreshold and pixelsThreshold of the call
    pngBefore,       \* the file as it was before the last call
    pngBuffer,       \* buffer.length of the last call's recompression
    pngResult,       \* what the last call returned, or that it threw
    pngCalls,        \* number of recompressPng calls made so far
    \* derivative generator (SharpProcessor.downscale / convertToWebp)
    derivFs,         \* the image files: path -> file
    derivBefore,     \* the files as they were before the last call
    derivLast,       \* the last call: its arguments and what it returned
    derivStarted,    \* per destination, the codec operations started
    derivCompleted,  \* per destination, the codec operations that completed
    derivFirst,      \* per destination, the file as it was first created
    derivCalls,      \* number of calls made so far
    \* image rewriter (ImageOptimizer.processDocument)
    imgDoc,          \* the document, as a sequence of markup tokens
    imgPrevDoc,      \* the document before the last run
    imgFs,           \* the image files: path -> file
    imgResult,       \* what the last run returned; threw = TRUE when it rejected
    imgPrevResult,   \* what the run before it returned
    imgRuns,         \* number of runs made so far
    \* command line run (ConfigManager and runCommand)
    runUser,         \* what the user's config file exports
    runEnv,          \* the surroundings: config loadable, root there, options
    runConfig,       \* ConfigManager.config
    runErrors,       \* the errors validateConfig reported
    runPc,           \* where runCommand is
    runExit,         \* the process exit code; -1 while running
    runScans,        \* number of processFiles calls started
    runResult,       \* what the last processFiles call returned
    runReport,       \* "none", "written" or "failed"
    \* text stage of one document (InteractiveMenu and TextProcessor)
    docName,         \* the file name, as its dot-separated pieces
    docFlags,        \* the enabled flags of the two text features
    docSelection,    \* what the user ticks in the menu
    docModules,      \* the modules showMainMenu returned
    docPrefs,        \* global.textProcessingPreferences
    docText,         \* the file content (character sequence)
    docBefore,       \* the file content before processDocument
    docResult,       \* what processDocument returned
    docPc,           \* "menu", "selected" or "processed"
    \* path resolver (PathResolver.resolveImagePath)
    resRef,          \* the image reference: its prefix and the rest
    resFiles,        \* the files of the project: directory and name
    resResult,       \* what resolveImagePath returned; NoLoc for null
    resPc            \* "start" or "done"

scanVars == <<source, pictureBlocks, standaloneImgs, scanned>>
textVars == <<content, original, replacements, textRuns>>
cssVars == <<cssContent, cssOriginal, cssFs, cssCreated, cssResult, cssRuns>>

batchVars == <<batchFiles, batchModules, batchPc, batchNext, batchResult,
               batchThrew, batchCounted, batchVisited, batchFailed>>

pngVars == <<pngFile, pngOptions, pngBefore, pngBuffer, pngResult, pngCalls>>

derivVars == <<derivFs, derivBefore, derivLast, derivStarted, derivCompleted,
               derivFirst, derivCalls>>

imgVars == <<imgDoc, imgPrevDoc, imgFs, imgResult, imgPrevResult, imgRuns>>

runVars == <<runUser, runEnv, runConfig, runErrors, runPc, runExit, runScans,
             runResult, runReport>>

docVars == <<docName, docFlags, docSelection, docModules, docPrefs, docText,
             docBefore, docResult, docPc>>

resVars == <<resRef, resFiles, resResult, resPc>>

vars == <<scanVars, textVars, cssVars, batchVars, pngVars, derivVars, imgVars, runVars,
          docVars, resVars>>

\* what each component leaves alone
notScanVars == <<textVars, cssVars, batchVars, pngVars, derivVars, imgVars, runVars,
    docVars, resVars>>
notTextVars == <<scanVars, cssVars, batchVars, pngVars, derivVars, imgVars, runVars,
    docVars, resVars>>
notCssVars == <<scanVars, textVars, batchVars, pngVars, derivVars, imgVars, runVars,
    docVars, resVars>>
notBatchVars == <<scanVars, textVars, cssVars, pngVars, derivVars, imgVars, runVars,
    docVars, resVars>>
notPngVars == <<scanVars, textVars, cssVars, batchVars, derivVars, imgVars, runVars,
    docVars, resVars>>
notDerivVars == <<scanVars, textVars, cssVars, batchVars, pngVars, imgVars, runVars,
    docVars, resVars>>
notImgVars == <<scanVars, textVars, cssVars, batchVars, pngVars, derivVars, runVars,
    docVars, resVars>>
notRunVars == <<scanVars, textVars, cssVars, batchVars, pngVars, derivVars, imgVars,
    docVars, resVars>>
notDocVars == <<scanVars, textVars, cssVars, batchVars, pngVars, derivVars, imgVars, runVars,
    resVars>>
notResVars == <<scanVars, textVars, cssVars, batchVars, pngVars, derivVars, imgVars, runVars,
    docVars>>

-----------------------------------------------------------------------------
(* Generic helpers *)

\* the one element of a singleton set
Only(S) == CHOOSE y \in S : TRUE

Min(S) == CHOOSE x \in S : \A y \in S : x <= y
Max(S) == CHOOSE x \in S : \A y \in S : x >= y

RECURSIVE SeqsUpTo(_, _)
\* all sequences over S of length 0..n
SeqsUpTo(S, n) ==
    IF n = 0 THEN {<<>>}
    ELSE LET shorter == SeqsUpTo(S, n - 1)
         IN shorter \cup {Append(s, x) : s \in {t \in shorter : Len(t) = n - 1}, x \in S}

-----------------------------------------------------------------------------
(* Markup tokens.  k is the kind of tag:                                   *)
(*   "po"     an opening <picture ...> tag                                 *)
(*   "pc"     a closing </picture> tag                                     *)
(*   "img"    an <img ...> tag; src is the value of its src attribute and  *)
(*            dsrc the value of a data-src="..." attribute written before  *)
(*            it ("" when the attribute is absent)                         *)
(*   "source" a <source ...> tag with its type, media and marker attribute *)
(*   "txt"    any other text                                               *)

Tok(k, src, dsrc, type, media, marker) ==
    [k |-> k, src |-> src, dsrc |-> dsrc, type |-> type, media |-> media, marker |-> marker]

PicOpen  == Tok("po", "", "", "", "", FALSE)
PicClose == Tok("pc", "", "", "", "", FALSE)
Txt      == Tok("txt", "", "", "", "", FALSE)
Img(src, dsrc) == Tok("img", src, dsrc, "", "", FALSE)
Source(type, media, marker) == Tok("source", "", "", type, media, marker)

-----------------------------------------------------------------------------
(* Tag-region scanner *)

RECURSIVE PictureBlocksFrom(_, _)
\* the matches of /<picture\b([^>]*)>([\s\S]*?)<\/picture\s*>/gi from position
\* `from` on: the next opening tag, lazily up to the first closing tag after it
PictureBlocksFrom(text, from) ==
    LET opens == {i \in from..Len(text) : text[i].k = "po"}
    IN  IF opens = {} THEN <<>>
        ELSE LET s == Min(opens)
                 closes == {j \in (s + 1)..Len(text) : text[j].k = "pc"}
             IN  IF closes = {} THEN <<>>
                 ELSE LET e == Min(closes)
                      IN  <<[start |-> s, end |-> e + 1,
                             inner |-> SubSeq(text, s + 1, e - 1)]>>
                          \o PictureBlocksFrom(text, e + 1)

findPictureBlocks(text) == PictureBlocksFrom(text, 1)

\* number of tokens of kind k strictly before position i
CountBefore(text, k, i) == Cardinality({j \in 1..(i - 1) : text[j].k = k})

\* the <img> tags with as many <picture> as </picture> tags before them
StandaloneAt(text, i) ==
    /\ text[i].k = "img"
    /\ CountBefore(text, "po", i) = CountBefore(text, "pc", i)

RECURSIVE StandaloneFrom(_, _)
StandaloneFrom(text, i) ==
    IF i > Len(text) THEN <<>>
    ELSE (IF StandaloneAt(text, i)
          THEN <<[start |-> i, end |-> i + 1, imgTag |-> text[i]]>>
          ELSE <<>>) \o StandaloneFrom(text, i + 1)

findStandaloneImages(text) == StandaloneFrom(text, 1)

-----------------------------------------------------------------------------
(* Scanner specification: the scanner applied to every short document *)

MaxScanLen == 4

ScanAlphabet == {PicOpen, PicClose, Img("w.jpg", ""), Txt}

ScanIdle ==
    /\ source = <<>>
    /\ pictureBlocks = <<>>
    /\ standaloneImgs = <<>>
    /\ scanned = FALSE

TextIdle ==
    /\ content = <<>>
    /\ original = <<>>
    /\ replacements = 0
    /\ textRuns = 0

CssIdle ==
    /\ cssContent = <<>>
    /\ cssOriginal = <<>>
    /\ cssFs = <<>>
    /\ cssCreated = {}
    /\ cssResult = [changed |-> FALSE, imagesProcessed |-> 0, webpRulesAdded |-> 0]
    /\ cssRuns = 0

\* the ProcessingResult literal processFiles starts from
EmptyResult ==
    [changedFiles |-> 0, totalFiles |-> 0, imagesProcessed |-> 0,
     hangingPrepositionsFixed |-> 0, superscriptReplacements |-> 0,
     cssProcessed |-> 0, errors |-> <<>>, warnings |-> 0]

BatchIdle ==
    /\ batchFiles = 0
    /\ batchModules = {}
    /\ batchPc = "returned"
    /\ batchNext = 1
    /\ batchResult = EmptyResult
    /\ batchThrew = {}
    /\ batchCounted = {}
    /\ batchVisited = <<>>
    /\ batchFailed = {}

\* the result record of recompressPng; threw = TRUE when it rejected
PngResult(threw, compressed, originalSize, newSize) ==
    [threw |-> threw, compressed |-> compressed,
     originalSize |-> originalSize, newSize |-> newSize]

PngIdle ==
    /\ pngFile = [size |-> 0, width |-> 0, height |-> 0, format |-> ""]
    /\ pngOptions = [sizeThreshold |-> 0, pixelsThreshold |-> 0]
    /\ pngBefore = pngFile
    /\ pngBuffer = 0
    /\ pngResult = PngResult(FALSE, FALSE, 0, 0)
    /\ pngCalls = 0

\* what downscale and convertToWebp hand back; threw = TRUE when they rejected
DerivResult(threw, codecRan, created, originalSize, newSize) ==
    [threw |-> threw, codecRan |-> codecRan, created |-> created,
     originalSize |-> originalSize, newSize |-> newSize]

DerivIdle ==
    /\ derivFs = <<>>
    /\ derivBefore = <<>>
    /\ derivLast = [op |-> "", src |-> [base |-> <<>>, ext |-> ""],
                    dest |-> [base |-> <<>>, ext |-> ""], targetWidth |-> 0,
                    result |-> DerivResult(FALSE, FALSE, FALSE, 0, 0)]
    /\ derivStarted = <<>>
    /\ derivCompleted = <<>>
    /\ derivFirst = <<>>
    /\ derivCalls = 0

ImgIdle ==
    /\ imgDoc = <<>>
    /\ imgPrevDoc = <<>>
    /\ imgFs = <<>>
    /\ imgResult = [changed |-> FALSE, threw |-> FALSE]
    /\ imgPrevResult = [changed |-> FALSE, threw |-> FALSE]
    /\ imgRuns = 0

RunIdle ==
    /\ runUser = <<>>
    /\ runEnv = [loadable |-> FALSE, rootExists |-> FALSE, skipMenu |-> FALSE,
                 modules |-> 0]
    /\ runConfig = <<>>
    /\ runErrors = {}
    /\ runPc = "idle"
    /\ runExit = -1
    /\ runScans = 0
    /\ runResult = [errors |-> 0, threw |-> FALSE]
    /\ runReport = "none"

DocIdle ==
    /\ docName = <<>>
    /\ docFlags = [hanging |-> FALSE, superscript |-> FALSE]
    /\ docSelection = {}
    /\ docModules = {}
    /\ docPrefs = [stored |-> FALSE, prepositions |-> FALSE, superscript |-> FALSE]
    /\ docText = <<>>
    /\ docBefore = <<>>
    /\ docResult = [changed |-> FALSE, hangingPrepositionsFixed |-> 0,
                    superscriptReplacements |-> 0]
    /\ docPc = "idle"

\* a place in the project: a directory and a file name; NoLoc stands for null
Loc(dir, name) == [dir |-> dir, name |-> name]
NoLoc == Loc("", "")

ResIdle ==
    /\ resRef = [prefix |-> "", name |-> ""]
    /\ resFiles = {}
    /\ resResult = NoLoc
    /\ resPc = "done"

NotScanIdle ==
    TextIdle /\ CssIdle /\ BatchIdle /\ PngIdle /\ DerivIdle /\ ImgIdle /\ RunIdle
    /\ DocIdle /\ ResIdle
NotTextIdle ==
    ScanIdle /\ CssIdle /\ BatchIdle /\ PngIdle /\ DerivIdle /\ ImgIdle /\ RunIdle
    /\ DocIdle /\ ResIdle
NotCssIdle ==
    ScanIdle /\ TextIdle /\ BatchIdle /\ PngIdle /\ DerivIdle /\ ImgIdle /\ RunIdle
    /\ DocIdle /\ ResIdle
NotBatchIdle ==
    ScanIdle /\ TextIdle /\ CssIdle /\ PngIdle /\ DerivIdle /\ ImgIdle /\ RunIdle
    /\ DocIdle /\ ResIdle
NotPngIdle ==
    ScanIdle /\ TextIdle /\ CssIdle /\ BatchIdle /\ DerivIdle /\ ImgIdle /\ RunIdle
    /\ DocIdle /\ ResIdle
NotDerivIdle ==
    ScanIdle /\ TextIdle /\ CssIdle /\ BatchIdle /\ PngIdle /\ ImgIdle /\ RunIdle
    /\ DocIdle /\ ResIdle
NotImgIdle ==
    ScanIdle /\ TextIdle /\ CssIdle /\ BatchIdle /\ PngIdle /\ DerivIdle /\ RunIdle
    /\ DocIdle /\ ResIdle
NotRunIdle ==
    ScanIdle /\ TextIdle /\ CssIdle /\ BatchIdle /\ PngIdle /\ DerivIdle /\ ImgIdle
    /\ DocIdle /\ ResIdle
NotDocIdle ==
    ScanIdle /\ TextIdle /\ CssIdle /\ BatchIdle /\ PngIdle /\ DerivIdle /\ ImgIdle /\ RunIdle
    /\ ResIdle
NotResIdle ==
    ScanIdle /\ TextIdle /\ CssIdle /\ BatchIdle /\ PngIdle /\ DerivIdle /\ ImgIdle /\ RunIdle
    /\ DocIdle

ScanInit ==
    /\ source \in SeqsUpTo(ScanAlphabet, MaxScanLen)
    /\ pictureBlocks = <<>>
    /\ standaloneImgs = <<>>
    /\ scanned = FALSE
    /\ NotScanIdle

Scan ==
    /\ ~scanned
    /\ pictureBlocks' = findPictureBlocks(source)
    /\ standaloneImgs' = findStandaloneImages(source)
    /\ scanned' = TRUE
    /\ UNCHANGED <<source, notScanVars>>

SpecScan == ScanInit /\ [][Scan]_vars

BlocksAscending(bs) ==
    \A i \in 1..Len(bs) :
        /\ bs[i].start < bs[i].end
        /\ i < Len(bs) => bs[i].end <= bs[i + 1].start

ImgInsideBlock(im, b) == b.start <= im.start /\ im.end <= b.end

\* C3: for any document the regions of findPictureBlocks are pairwise
\* non-overlapping and in ascending start order, and findStandaloneImages
\* returns no <img> whose span lies inside one of those regions.
C3_RegionsNeverOverlap ==
    scanned =>
        /\ BlocksAscending(pictureBlocks)
        /\ \A i \in 1..Len(standaloneImgs) : \A j \in 1..Len(pictureBlocks) :
              ~ImgInsideBlock(standaloneImgs[i], pictureBlocks[j])

-----------------------------------------------------------------------------
(* Characters.  A text is a sequence of characters, each written as a      *)
(* string: letters "a" "b" "x" "m" "k", the capital "A" of "a", digits     *)
(* "2" "5", the blank " ", the line feed "nl", the tab "tab", the          *)
(* punctuation ".", the markup characters "<" ">" "/" and the double quote *)
(* "q".  Two strings stand for a run of characters that the patterns       *)
(* never split: "sup" (the letters s, u, p) and "nbsp" (the six characters *)
(* of the marker &nbsp;, none of them whitespace).                          *)

IsSpace(c) == c \in {" ", "nl", "tab"}           \* \s
IsDigit(c) == c \in {"2", "5"}                   \* [0-9]
IsPunct(c) == c \in {"."}                        \* [.,;:!?]
IsWordChar(c) == c \in {"a", "b", "x", "m", "k", "A", "2", "5", "sup"}   \* \w
Lower(c) == IF c = "A" THEN "a" ELSE c

\* the literal `word` stands at position i of t (flag i: case-insensitive)
LitAt(t, i, word) ==
    /\ i >= 1
    /\ i + Len(word) - 1 <= Len(t)
    /\ \A j \in 1..Len(word) : Lower(t[i + j - 1]) = Lower(word[j])

RECURSIVE Flatten(_)
Flatten(ws) == IF ws = <<>> THEN <<>> ELSE Head(ws) \o Flatten(Tail(ws))

\* the first match of /<[^>]*>/g at or after `from`: the leftmost "<" and
\* the first ">" after it; <<0, 0>> when there is none
NextTag(t, from) ==
    LET lts == {i \in from..Len(t) : t[i] = "<"}
    IN  IF lts = {} THEN <<0, 0>>
        ELSE LET s == Min(lts)
                 gts == {j \in (s + 1)..Len(t) : t[j] = ">"}
             IN  IF gts = {} THEN <<0, 0>> ELSE <<s, Min(gts)>>

-----------------------------------------------------------------------------
(* Hanging-prepositions fixer *)

\* a rewrite that keeps the whitespace run and puts the marker after it
processedWhitespaceKept(ws) == ws \o <<"nbsp">>

\* callback of processPreposition: the whitespace run between the token and
\* the next word, as rewritten
processedWhitespace(ws) ==
    IF \E i \in 1..Len(ws) : ws[i] = "nl"
    THEN \* whitespace.replace(/[ \t]+$/, '&nbsp;')
         LET n == Len(ws)
             tail == {i \in 1..n : \A j \in i..n : ws[j] \in {" ", "tab"}}
         IN  IF tail = {} THEN ws
             ELSE SubSeq(ws, 1, Min(tail) - 1) \o <<"nbsp">>
    ELSE <<"nbsp">>

\* the pattern (^|\s)(prep)(\s+)(\S) with flags gim tried at position i of
\* the text span t: the position of the token and of the character after
\* the whitespace run, or 0 when the pattern does not match at i
\* a match that does not ask for a word after the whitespace run: the token
\* and the run up to its last character
PrepMatchAtAnyRun(t, i, prep) ==
    LET at == IF (i = 1 \/ t[i - 1] = "nl") /\ LitAt(t, i, prep) THEN i
              ELSE IF IsSpace(t[i]) /\ LitAt(t, i + 1, prep) THEN i + 1
              ELSE 0
        w == at + Len(prep)
    IN  IF at = 0 \/ w > Len(t) \/ ~IsSpace(t[w])
        THEN [tok |-> 0, next |-> 0]
        ELSE [tok |-> at,
              next |-> Max({j \in w..Len(t) : \A m \in w..j : IsSpace(t[m])})]

PrepMatchAt(t, i, prep) ==
    LET lineStart == i = 1 \/ t[i - 1] = "nl"
        at == IF lineStart /\ LitAt(t, i, prep) THEN i
              ELSE IF IsSpace(t[i]) /\ LitAt(t, i + 1, prep) THEN i + 1
              ELSE 0
        w == at + Len(prep)
        nonSpace == {j \in w..Len(t) : ~IsSpace(t[j])}
    IN  IF at = 0 \/ w > Len(t) \/ ~IsSpace(t[w]) \/ nonSpace = {}
        THEN [tok |-> 0, next |-> 0]
        ELSE [tok |-> at, next |-> Min(nonSpace)]

RECURSIVE PrepReplaceFrom(_, _, _)
\* String.replace(pattern, callback) on one text span from position `pos`
PrepReplaceFrom(t, pos, prep) ==
    LET starts == {i \in pos..Len(t) : PrepMatchAt(t, i, prep).tok # 0}
    IN  IF starts = {}
        THEN [content |-> SubSeq(t, pos, Len(t)), replacements |-> 0]
        ELSE LET i == Min(starts)
                 m == PrepMatchAt(t, i, prep)
                 w == m.tok + Len(prep)
                 rest == PrepReplaceFrom(t, m.next + 1, prep)
             IN  [content |-> SubSeq(t, pos, w - 1)
                              \o processedWhitespace(SubSeq(t, w, m.next - 1))
                              \o <<t[m.next]>> \o rest.content,
                  replacements |-> 1 + rest.replacements]

RECURSIVE PrepPartsFrom(_, _, _)
\* splitContentByTags and the map over its parts: tag parts are copied,
\* text parts go through the replacement
PrepPartsFrom(t, pos, prep) ==
    IF pos > Len(t) THEN [content |-> <<>>, replacements |-> 0]
    ELSE LET tag == NextTag(t, pos)
         IN  IF tag[1] = 0 THEN PrepReplaceFrom(SubSeq(t, pos, Len(t)), 1, prep)
             ELSE LET txt == PrepReplaceFrom(SubSeq(t, pos, tag[1] - 1), 1, prep)
                      rest == PrepPartsFrom(t, tag[2] + 1, prep)
                  IN  [content |-> txt.content \o SubSeq(t, tag[1], tag[2]) \o rest.content,
                       replacements |-> txt.replacements + rest.replacements]

processPreposition(t, prep) == PrepPartsFrom(t, 1, prep)

RECURSIVE HangingFrom(_, _, _)
\* the loop of processText over the configured prepositions, in order
HangingFrom(t, preps, k) ==
    IF k > Len(preps) THEN [content |-> t, replacements |-> 0]
    ELSE LET r == processPreposition(t, preps[k])
             rest == HangingFrom(r.content, preps, k + 1)
         IN  [content |-> rest.content,
              replacements |-> r.replacements + rest.replacements]

HangingProcessText(t, preps) == HangingFrom(t, preps, 1)

-----------------------------------------------------------------------------
(* Unit superscript converter *)

\* the lookahead (?=\s|$|[.,;:!?]) at position j of the text span t
SupLookahead(t, j) == j > Len(t) \/ IsSpace(t[j]) \/ IsPunct(t[j])

\* the pattern (^|\s|[0-9])from(?=\s|$|[.,;:!?]) with flags gi tried at
\* position i of the text span t: the position of `from`, or 0
SupMatchAt(t, i, from) ==
    IF i = 1 /\ LitAt(t, 1, from) /\ SupLookahead(t, 1 + Len(from)) THEN 1
    ELSE IF /\ IsSpace(t[i]) \/ IsDigit(t[i])
            /\ LitAt(t, i + 1, from)
            /\ SupLookahead(t, i + 1 + Len(from))
         THEN i + 1
         ELSE 0

RECURSIVE SupReplaceFrom(_, _, _, _)
\* String.replace(pattern, (match, prefix) => prefix + to) on one text span
SupReplaceFrom(t, pos, from, to) ==
    LET starts == {i \in pos..Len(t) : SupMatchAt(t, i, from) # 0}
    IN  IF starts = {}
        THEN [content |-> SubSeq(t, pos, Len(t)), replacements |-> 0]
        ELSE LET at == SupMatchAt(t, Min(starts), from)
                 rest == SupReplaceFrom(t, at + Len(from), from, to)
             IN  [content |-> SubSeq(t, pos, at - 1) \o to \o rest.content,
                  replacements |-> 1 + rest.replacements]

\* /<sup\b[^>]*>/i.test(tag) and /<\/sup>/i.test(tag) on a matched tag
isSupOpen(tag) ==
    \E j \in 1..(Len(tag) - 2) :
        tag[j] = "<" /\ tag[j + 1] = "sup" /\ ~IsWordChar(tag[j + 2])
isSupClose(tag) ==
    \E j \in 1..(Len(tag) - 3) :
        tag[j] = "<" /\ tag[j + 1] = "/" /\ tag[j + 2] = "sup" /\ tag[j + 3] = ">"

\* a text part is replaced only when it is of type 'text', not 'sup-text'
SupTextPart(t, insideSupTag, from, to) ==
    IF insideSupTag THEN [content |-> t, replacements |-> 0]
    ELSE SupReplaceFrom(t, 1, from, to)

RECURSIVE SupPartsFrom(_, _, _, _, _)
\* splitContentByTags with its insideSupTag flag, and the map over the parts
SupPartsFrom(t, pos, insideSupTag, from, to) ==
    IF pos > Len(t) THEN [content |-> <<>>, replacements |-> 0]
    ELSE LET tag == NextTag(t, pos)
         IN  IF tag[1] = 0
             THEN SupTextPart(SubSeq(t, pos, Len(t)), insideSupTag, from, to)
             ELSE LET txt == SupTextPart(SubSeq(t, pos, tag[1] - 1), insideSupTag, from, to)
                      tagText == SubSeq(t, tag[1], tag[2])
                      inside == IF isSupOpen(tagText) THEN TRUE
                                ELSE IF isSupClose(tagText) THEN FALSE
                                ELSE insideSupTag
                      rest == SupPartsFrom(t, tag[2] + 1, inside, from, to)
                  IN  [content |-> txt.content \o tagText \o rest.content,
                       replacements |-> txt.replacements + rest.replacements]

performReplacement(t, from, to) == SupPartsFrom(t, 1, FALSE, from, to)

RECURSIVE SuperscriptFrom(_, _, _)
\* the loop of processText over the configured replacement pairs, in order
SuperscriptFrom(t, rules, k) ==
    IF k > Len(rules) THEN [content |-> t, replacements |-> 0]
    ELSE LET r == performReplacement(t, rules[k].from, rules[k].to)
             rest == SuperscriptFrom(r.content, rules, k + 1)
         IN  [content |-> rest.content,
              replacements |-> r.replacements + rest.replacements]

SuperscriptProcessText(t, rules) == SuperscriptFrom(t, rules, 1)

-----------------------------------------------------------------------------
(* Configuration of the text rewriters: two boundary tokens and two unit   *)
(* pairs of the default shape unit -> unit<sup>n</sup>, in list order.     *)

Prepositions == << <<"a">>, <<"b">> >>

SupTo(unit) == unit \o <<"<", "sup", ">", "2", "<", "/", "sup", ">">>

Replacements ==
    << [from |-> <<"m", "2">>, to |-> SupTo(<<"m">>)],
       [from |-> <<"k", "m", "2">>, to |-> SupTo(<<"k", "m">>)] >>

MaxTextRuns == 2

-----------------------------------------------------------------------------
(* Hanging-prepositions specification: processText applied, once and then  *)
(* again, to every short text over HangAlphabet.                           *)

MaxHangLen == 5

HangAlphabet == {"a", "b", "x", " ", "nl", "<", ">"}

HangInit ==
    /\ content \in SeqsUpTo(HangAlphabet, MaxHangLen)
    /\ original = content
    /\ replacements = 0
    /\ textRuns = 0
    /\ NotTextIdle

HangProcessText ==
    /\ textRuns < MaxTextRuns
    /\ LET r == HangingProcessText(content, Prepositions)
       IN  /\ content' = r.content
           /\ replacements' = r.replacements
    /\ textRuns' = textRuns + 1
    /\ UNCHANGED <<original, notTextVars>>

SpecHang == HangInit /\ [][HangProcessText]_vars

\* length of a configured token standing at position i of the text span t,
\* preceded by the start of the span or whitespace and followed by a
\* whitespace run and then a non-whitespace character; 0 if there is none
BoundaryTokenAt(t, i, preps) ==
    LET hits == {k \in 1..Len(preps) :
                   /\ LitAt(t, i, preps[k])
                   /\ i = 1 \/ IsSpace(t[i - 1])
                   /\ \E w \in (i + Len(preps[k]) + 1)..Len(t) :
                         /\ ~IsSpace(t[w])
                         /\ \A j \in (i + Len(preps[k]))..(w - 1) : IsSpace(t[j])}
    IN  IF hits = {} THEN 0 ELSE Len(preps[Min(hits)])

RECURSIVE EveryOccurrenceFrom(_, _, _)
\* the text span with the whitespace after every such occurrence replaced,
\* and the number of occurrences
EveryOccurrenceFrom(t, i, preps) ==
    IF i > Len(t) THEN [content |-> <<>>, replacements |-> 0]
    ELSE LET n == BoundaryTokenAt(t, i, preps)
         IN  IF n = 0
             THEN LET rest == EveryOccurrenceFrom(t, i + 1, preps)
                  IN  [content |-> <<t[i]>> \o rest.content,
                       replacements |-> rest.replacements]
             ELSE LET w == Min({j \in (i + n)..Len(t) : ~IsSpace(t[j])})
                      rest == EveryOccurrenceFrom(t, w, preps)
                  IN  [content |-> SubSeq(t, i, i + n - 1)
                                     \o processedWhitespace(SubSeq(t, i + n, w - 1))
                                     \o rest.content,
                       replacements |-> 1 + rest.replacements]

RECURSIVE EveryOccurrenceOutsideTags(_, _, _)
EveryOccurrenceOutsideTags(t, pos, preps) ==
    IF pos > Len(t) THEN [content |-> <<>>, replacements |-> 0]
    ELSE LET tag == NextTag(t, pos)
         IN  IF tag[1] = 0
             THEN EveryOccurrenceFrom(SubSeq(t, pos, Len(t)), 1, preps)
             ELSE LET txt == EveryOccurrenceFrom(SubSeq(t, pos, tag[1] - 1), 1, preps)
                      rest == EveryOccurrenceOutsideTags(t, tag[2] + 1, preps)
                  IN  [content |-> txt.content \o SubSeq(t, tag[1], tag[2]) \o rest.content,
                       replacements |-> txt.replacements + rest.replacements]

\* C4: after one processText, every boundary-anchored occurrence of a
\* configured token outside tags has its trailing whitespace replaced by the
\* non-breaking space, and the reported count is the number of occurrences.
C4_EveryOccurrenceReplaced ==
    textRuns = 1 =>
        LET e == EveryOccurrenceOutsideTags(original, 1, Prepositions)
        IN  content = e.content /\ replacements = e.replacements

\* a configured token at position i of the text span t, preceded by the start
\* of the span or whitespace, with nothing but whitespace after it
TrailingTokenAt(t, i, preps) ==
    \E k \in 1..Len(preps) :
        /\ LitAt(t, i, preps[k])
        /\ i = 1 \/ IsSpace(t[i - 1])
        /\ \A j \in (i + Len(preps[k]))..Len(t) : IsSpace(t[j])

RECURSIVE TextSpansFrom(_, _)
\* the text spans between the tags of t, in order
TextSpansFrom(t, pos) ==
    IF pos > Len(t) THEN <<>>
    ELSE LET tag == NextTag(t, pos)
         IN  IF tag[1] = 0 THEN <<SubSeq(t, pos, Len(t))>>
             ELSE <<SubSeq(t, pos, tag[1] - 1)>> \o TextSpansFrom(t, tag[2] + 1)

\* the span `after` ends as the span `before` does from position i on
SameTail(before, after, i) ==
    LET n == Len(before) - i + 1
    IN  /\ Len(after) >= n
        /\ SubSeq(after, Len(after) - n + 1, Len(after)) = SubSeq(before, i, Len(before))

\* C14: a token with no non-whitespace character after it in its text span is
\* left as it is, with the whitespace after it, and adds nothing to the count:
\* the count is at most the number of tokens that do have a word after them.
C14_TrailingTokenUntouched ==
    textRuns = 1 =>
        LET before == TextSpansFrom(original, 1)
            after == TextSpansFrom(content, 1)
        IN  /\ Len(after) = Len(before)
            /\ \A k \in 1..Len(before) : \A i \in 1..Len(before[k]) :
                  TrailingTokenAt(before[k], i, Prepositions)
                      => SameTail(before[k], after[k], i)
            /\ replacements
                  <= EveryOccurrenceOutsideTags(original, 1, Prepositions).replacements

\* a text whose first token was fixed and whose last token, followed by
\* whitespace only, was not
C14_Witness ==
    /\ textRuns = 1
    /\ replacements = 1
    /\ Len(original) = MaxHangLen
    /\ original[1] = "a"
    /\ TrailingTokenAt(original, 4, Prepositions)
    /\ \A i \in 1..Len(original) : original[i] \notin {"<", ">"}

-----------------------------------------------------------------------------
(* Superscript specification: processText applied, once and then again, to *)
(* every short text made of the words of SupWords.                         *)

MaxSupWords == 4

SupWords ==
    { <<"m", "2">>, <<"k", "m", "2">>, <<" ">>, <<"5">>, <<".">>,
      <<"<", "sup", ">">>, <<"<", "/", "sup", ">">>, <<"<">> }

SupInit ==
    /\ content \in {Flatten(ws) : ws \in SeqsUpTo(SupWords, MaxSupWords)}
    /\ original = content
    /\ replacements = 0
    /\ textRuns = 0
    /\ NotTextIdle

SupProcessText ==
    /\ textRuns < MaxTextRuns
    /\ LET r == SuperscriptProcessText(content, Replacements)
       IN  /\ content' = r.content
           /\ replacements' = r.replacements
    /\ textRuns' = textRuns + 1
    /\ UNCHANGED <<original, notTextVars>>

SpecSup == SupInit /\ [][SupProcessText]_vars

RECURSIVE TagSpans(_, _)
\* the spans <<first, last>> of the tags of t from position pos on
TagSpans(t, pos) ==
    IF pos > Len(t) THEN {}
    ELSE LET tag == NextTag(t, pos)
         IN  IF tag[1] = 0 THEN {} ELSE {tag} \cup TagSpans(t, tag[2] + 1)

\* position p lies between a <sup...> tag and the following </sup>
BetweenSupTags(t, p) ==
    LET tags == TagSpans(t, 1)
        opens == {g \in tags : isSupOpen(SubSeq(t, g[1], g[2]))}
        closes == {g \in tags \ opens : isSupClose(SubSeq(t, g[1], g[2]))}
    IN  \E o \in opens :
            /\ o[2] < p
            /\ ~\E c \in closes : o[2] < c[1] /\ c[2] < p

\* `from` stands at position p of t, outside every tag and outside <sup>,
\* after the start of its text run, whitespace or a digit, and before the
\* end of its text run, whitespace or punctuation
AnchoredOutsideSup(t, p, from) ==
    LET tags == TagSpans(t, 1)
        q == p + Len(from)
    IN  /\ LitAt(t, p, from)
        /\ \A g \in tags : g[2] < p \/ q <= g[1]
        /\ p = 1 \/ (\E g \in tags : g[2] = p - 1) \/ IsSpace(t[p - 1]) \/ IsDigit(t[p - 1])
        /\ q > Len(t) \/ (\E g \in tags : g[1] = q) \/ IsSpace(t[q]) \/ IsPunct(t[q])
        /\ ~BetweenSupTags(t, p)

RECURSIVE ConvertedFrom(_, _, _, _)
\* t with `to` in place of every such occurrence, and nothing else changed
ConvertedFrom(t, p, from, to) ==
    IF p > Len(t) THEN <<>>
    ELSE IF AnchoredOutsideSup(t, p, from)
         THEN to \o ConvertedFrom(t, p + Len(from), from, to)
         ELSE <<t[p]>> \o ConvertedFrom(t, p + 1, from, to)

OccurrencesOutsideSup(t, from) ==
    Cardinality({p \in 1..Len(t) : AnchoredOutsideSup(t, p, from)})

RECURSIVE ConvertedAll(_, _, _)
\* the pairs applied one after the other
ConvertedAll(t, rules, k) ==
    IF k > Len(rules) THEN [content |-> t, replacements |-> 0]
    ELSE LET c == ConvertedFrom(t, 1, rules[k].from, rules[k].to)
             rest == ConvertedAll(c, rules, k + 1)
         IN  [content |-> rest.content,
              replacements |-> OccurrencesOutsideSup(t, rules[k].from) + rest.replacements]

\* C6: the replacer converts exactly the boundary-anchored occurrences of
\* `from` outside <sup>...</sup> and leaves those between a <sup...> tag and
\* the following </sup> alone; a second application to its own output
\* changes nothing and reports 0 replacements.
C6_SupProtectedAndIdempotent ==
    LET e == ConvertedAll(original, Replacements, 1)
    IN  /\ textRuns >= 1 => content = e.content
        /\ textRuns = 1 => replacements = e.replacements
        /\ textRuns = 2 => replacements = 0

-----------------------------------------------------------------------------
(* Tag-preservation specification: the two rewriters applied, in any order *)
(* and up to MaxTextRuns times, to every short text made of the words of   *)
(* TagWords.  "q" is the double quote that delimits an attribute value.    *)

MaxTagWords == 6

TagWords == { <<"<", "x">>, <<"q">>, <<">">>, <<"a", " ">>, <<"m", "2">>, <<" ">> }

TagsInit ==
    /\ content \in {Flatten(ws) : ws \in SeqsUpTo(TagWords, MaxTagWords)}
    /\ original = content
    /\ replacements = 0
    /\ textRuns = 0
    /\ NotTextIdle

TagsHanging ==
    /\ textRuns < MaxTextRuns
    /\ LET r == HangingProcessText(content, Prepositions)
       IN  /\ content' = r.content
           /\ replacements' = r.replacements
    /\ textRuns' = textRuns + 1
    /\ UNCHANGED <<original, notTextVars>>

TagsSuperscript ==
    /\ textRuns < MaxTextRuns
    /\ LET r == SuperscriptProcessText(content, Replacements)
       IN  /\ content' = r.content
           /\ replacements' = r.replacements
    /\ textRuns' = textRuns + 1
    /\ UNCHANGED <<original, notTextVars>>

SpecTags == TagsInit /\ [][TagsHanging \/ TagsSuperscript]_vars

RECURSIVE TagEnd(_, _, _)
\* the closing '>' of the tag whose inside starts at position i: the first
\* '>' that is not within a quoted attribute value; 0 if the tag never closes
TagEnd(t, i, inQuote) ==
    IF i > Len(t) THEN 0
    ELSE IF t[i] = "q" THEN TagEnd(t, i + 1, ~inQuote)
    ELSE IF t[i] = ">" /\ ~inQuote THEN i
    ELSE TagEnd(t, i + 1, inQuote)

RECURSIVE HtmlTags(_, _)
\* the HTML tags of t in order, each from its '<' to its closing '>',
\* attribute values included
HtmlTags(t, pos) ==
    LET opens == {i \in pos..Len(t) : t[i] = "<"}
    IN  IF opens = {} THEN <<>>
        ELSE LET s == Min(opens)
                 e == TagEnd(t, s + 1, FALSE)
             IN  IF e = 0 THEN <<>>
                 ELSE <<SubSeq(t, s, e)>> \o HtmlTags(t, e + 1)

RECURSIVE IsSubsequence(_, _)
\* every element of a appears in b, in the same order
IsSubsequence(a, b) ==
    IF a = <<>> THEN TRUE
    ELSE IF b = <<>> THEN FALSE
    ELSE IF Head(a) = Head(b) THEN IsSubsequence(Tail(a), Tail(b))
    ELSE IsSubsequence(a, Tail(b))

\* C5: neither rewriter changes a character inside an HTML tag, attribute
\* values included: every tag of the input appears byte-identical and in
\* the same order in the output.
C5_TagsUnchanged ==
    IsSubsequence(HtmlTags(original, 1), HtmlTags(content, 1))

-----------------------------------------------------------------------------
(* Derivative generator (SharpProcessor).  A file system is a function     *)
(* from paths to files, its DOMAIN the existing paths.  codec is the       *)
(* outcome of the one codec operation a call may perform: ok = FALSE when  *)
(* sharp throws, size the byte size of the output it writes.               *)

File(size, width, height, format) ==
    [size |-> size, width |-> width, height |-> height, format |-> format]

WriteFile(fs, path, file) ==
    [p \in DOMAIN fs \cup {path} |-> IF p = path THEN file ELSE fs[p]]

\* the margin of "only save if significantly smaller"
Slack == 1024

\* a recompression that is saved whenever it is smaller at all
AnySmaller(bufferLength, size) == bufferLength < size

SignificantlySmaller(bufferLength, size) == bufferLength + Slack < size

\* recompressPng on one file; codec.ok = FALSE when stat, metadata, toBuffer
\* or writeFile rejects, codec.size is buffer.length
recompressPng(file, options, codec) ==
    LET pixels == file.width * file.height
    IN  IF ~codec.ok
        THEN [file |-> file, result |-> PngResult(TRUE, FALSE, 0, 0)]
        ELSE IF file.format # "png"
        THEN [file |-> file, result |-> PngResult(FALSE, FALSE, file.size, file.size)]
        ELSE IF file.size < options.sizeThreshold /\ pixels < options.pixelsThreshold
        THEN [file |-> file, result |-> PngResult(FALSE, FALSE, file.size, file.size)]
        ELSE IF SignificantlySmaller(codec.size, file.size)
        THEN [file |-> [file EXCEPT !.size = codec.size],
              result |-> PngResult(FALSE, TRUE, file.size, codec.size)]
        ELSE [file |-> file, result |-> PngResult(FALSE, FALSE, file.size, file.size)]

\* the format sharp writes for a destination extension
FormatOf(ext) ==
    IF ext \in {"jpg", "jpeg"} THEN "jpeg" ELSE ext

\* a converter that encodes without looking for the destination first
convertToWebpAlways(fs, srcPath, destPath, codec) ==
    IF srcPath \notin DOMAIN fs \/ ~codec.ok
    THEN [fs |-> fs, result |-> DerivResult(TRUE, srcPath \in DOMAIN fs, FALSE, 0, 0)]
    ELSE [fs |-> WriteFile(fs, destPath,
                     File(codec.size, fs[srcPath].width, fs[srcPath].height, "webp")),
          result |-> DerivResult(FALSE, TRUE, TRUE, fs[srcPath].size, codec.size)]

convertToWebp(fs, srcPath, destPath, codec) ==
    IF destPath \in DOMAIN fs
    THEN [fs |-> fs, result |-> DerivResult(FALSE, FALSE, FALSE, 0, fs[destPath].size)]
    ELSE IF srcPath \notin DOMAIN fs       \* fs.stat(srcPath) rejects
    THEN [fs |-> fs, result |-> DerivResult(TRUE, FALSE, FALSE, 0, 0)]
    ELSE IF ~codec.ok                      \* sharp(...).toFile rejects
    THEN [fs |-> fs, result |-> DerivResult(TRUE, TRUE, FALSE, 0, 0)]
    ELSE [fs |-> WriteFile(fs, destPath,
                     File(codec.size, fs[srcPath].width, fs[srcPath].height, "webp")),
          result |-> DerivResult(FALSE, TRUE, TRUE, fs[srcPath].size, codec.size)]

\* a downscale that resizes to the target width whatever the source width
downscaleAlwaysResize(fs, srcPath, destPath, targetWidth, codec) ==
    IF destPath \in DOMAIN fs
    THEN [fs |-> fs, result |-> DerivResult(FALSE, FALSE, FALSE, 0, fs[destPath].size)]
    ELSE IF srcPath \notin DOMAIN fs \/ ~codec.ok
    THEN [fs |-> fs, result |-> DerivResult(TRUE, srcPath \in DOMAIN fs, FALSE, 0, 0)]
    ELSE [fs |-> WriteFile(fs, destPath,
                     File(codec.size, targetWidth,
                          (fs[srcPath].height * targetWidth) \div fs[srcPath].width,
                          FormatOf(destPath.ext))),
          result |-> DerivResult(FALSE, TRUE, TRUE, fs[srcPath].size, codec.size)]

\* getMetadata(...).width: 0 when sharp cannot read the file
getMetadataWidth(fs, path) == IF path \in DOMAIN fs THEN fs[path].width ELSE 0

downscale(fs, srcPath, destPath, targetWidth, codec) ==
    IF destPath \in DOMAIN fs
    THEN [fs |-> fs, result |-> DerivResult(FALSE, FALSE, FALSE, 0, fs[destPath].size)]
    ELSE IF srcPath \notin DOMAIN fs       \* fs.stat(srcPath) rejects
    THEN [fs |-> fs, result |-> DerivResult(TRUE, FALSE, FALSE, 0, 0)]
    ELSE LET width == getMetadataWidth(fs, srcPath)
         IN  IF width # 0 /\ width <= targetWidth     \* just copy
             THEN [fs |-> WriteFile(fs, destPath, fs[srcPath]),
                   result |-> DerivResult(FALSE, FALSE, TRUE,
                                          fs[srcPath].size, fs[srcPath].size)]
             ELSE IF ~codec.ok              \* pipeline.toFile rejects
             THEN [fs |-> fs, result |-> DerivResult(TRUE, TRUE, FALSE, 0, 0)]
             ELSE [fs |-> WriteFile(fs, destPath,
                              File(codec.size, targetWidth,
                                   (fs[srcPath].height * targetWidth) \div width,
                                   FormatOf(destPath.ext))),
                   result |-> DerivResult(FALSE, TRUE, TRUE, fs[srcPath].size, codec.size)]

-----------------------------------------------------------------------------
(* CSS background-image rewriter.  A stylesheet is a sequence of tokens:   *)
(*   "sel" "@media"        selector / at-rule prelude text                 *)
(*   "{" "}"               braces                                          *)
(*   "ws"                  a run of whitespace                             *)
(*   "bg"                  one match of the background-image pattern, the  *)
(*                         whole declaration background-image: url(U)      *)
(*   "@supports(" "@supports not (" ")" "comment"                          *)
(*                         the fixed text of the generated rule            *)
(* A URL is scheme + name + extension; a relative URL is also the path of  *)
(* the file it resolves to from the stylesheet's directory.                *)

Url(scheme, name, ext) == [scheme |-> scheme, name |-> name, ext |-> ext]
NoUrl == Url("", "", "")
CssTok(k, url) == [k |-> k, url |-> url]
Css(k) == CssTok(k, NoUrl)
Decl(u) == CssTok("bg", u)

\* the data URI of the WebP feature test in the generated @supports rules
WebpTestUri == Url("data:", "image/webp;base64", "")

\* Array.from(cssContent.matchAll(backgroundImageRegex))
backgroundImageMatches(css) == SelectSeq(css, LAMBDA tok : tok.k = "bg")

\* a rewriter that skips no URL
NeverSkipUrl(url) == FALSE

shouldSkipUrl(url) ==
    \/ url.scheme = "data:"
    \/ url.scheme = "http://"
    \/ url.scheme = "https://"
    \/ url.scheme = "//"
    \/ url.ext = "webp"
    \/ url.name = "gradient"
    \/ url.scheme = "#"

isProcessableImage(fs, imagePath) ==
    /\ imagePath \in DOMAIN fs
    /\ imagePath.ext \in {"jpg", "jpeg", "png", "gif", "bmp", "tiff"}

\* the sibling path: same directory and name, extension .webp
SiblingWebp(imagePath) == [imagePath EXCEPT !.ext = "webp"]

\* webpPath = NoUrl stands for the null result
generateWebPVersion(fs, imagePath, codec) ==
    LET webpPath == SiblingWebp(imagePath)
    IN  IF webpPath \in DOMAIN fs THEN [fs |-> fs, webpPath |-> webpPath]
        ELSE LET r == convertToWebp(fs, imagePath, webpPath, codec)
             IN  IF r.result.threw THEN [fs |-> fs, webpPath |-> NoUrl]
                 ELSE [fs |-> r.fs,
                       webpPath |-> IF r.result.created THEN webpPath ELSE NoUrl]

createWebPRule(originalRule, webpPath) ==
    << Css("@supports("), Decl(WebpTestUri), Css(")"), Css("ws"), Css("{"), Css("ws"),
       Decl(webpPath), Css("ws"), Css("}"), Css("ws"), Css("comment"), Css("ws"),
       Css("@supports not ("), Decl(WebpTestUri), Css(")"), Css("ws"), Css("{"), Css("ws"),
       originalRule, Css("ws"), Css("}") >>

RECURSIVE SelectorStart(_, _, _, _, _)
\* the backward loop of findRuleContext from position i
SelectorStart(css, i, braceCount, inRule, ruleIndex) ==
    IF i < 1 THEN ruleIndex
    ELSE IF css[i].k = "}"
         THEN IF ~inRule THEN i + 1
              ELSE SelectorStart(css, i - 1, braceCount + 1, inRule, ruleIndex)
    ELSE IF css[i].k = "{"
         THEN IF braceCount = 0
              THEN SelectorStart(css, i - 1, braceCount, TRUE, ruleIndex)
              ELSE SelectorStart(css, i - 1, braceCount - 1, inRule, ruleIndex)
    ELSE SelectorStart(css, i - 1, braceCount, inRule, ruleIndex)

RECURSIVE RuleEnd(_, _, _, _, _)
\* the forward loop of findRuleContext from position i: the last position of
\* the rule (ruleEnd is one past it)
RuleEnd(css, i, braceCount, inRule, ruleIndex) ==
    IF i > Len(css) THEN ruleIndex - 1
    ELSE IF css[i].k = "{"
         THEN IF ~inRule THEN RuleEnd(css, i + 1, braceCount, TRUE, ruleIndex)
              ELSE RuleEnd(css, i + 1, braceCount + 1, inRule, ruleIndex)
    ELSE IF css[i].k = "}"
         THEN IF braceCount = 0 /\ inRule THEN i
              ELSE RuleEnd(css, i + 1, braceCount - 1, inRule, ruleIndex)
    ELSE RuleEnd(css, i + 1, braceCount, inRule, ruleIndex)

RECURSIVE Trim(_)
Trim(t) ==
    IF t = <<>> THEN t
    ELSE IF Head(t).k = "ws" THEN Trim(Tail(t))
    ELSE IF t[Len(t)].k = "ws" THEN Trim(SubSeq(t, 1, Len(t) - 1))
    ELSE t

\* cssContent.indexOf(pattern), 0 when absent
IndexOf(css, pat) ==
    IF pat = <<>> THEN 1
    ELSE LET hits == {i \in 1..(Len(css) - Len(pat) + 1) :
                        \A j \in 1..Len(pat) : css[i + j - 1] = pat[j]}
         IN  IF hits = {} THEN 0 ELSE Min(hits)

\* cssContent.replace(pattern, replacement) with a string pattern
ReplaceFirst(css, pat, rep) ==
    LET i == IndexOf(css, pat)
    IN  IF i = 0 THEN css
        ELSE SubSeq(css, 1, i - 1) \o rep \o SubSeq(css, i + Len(pat), Len(css))

findRuleContext(css, backgroundRule) ==
    LET ruleIndex == IndexOf(css, <<backgroundRule>>)
    IN  IF ruleIndex = 0 THEN [found |-> FALSE, fullRule |-> <<>>]
        ELSE LET selectorStart == SelectorStart(css, ruleIndex - 1, 0, FALSE, ruleIndex)
                 ruleEnd == RuleEnd(css, ruleIndex, 0, FALSE, ruleIndex)
             IN  [found |-> TRUE, fullRule |-> Trim(SubSeq(css, selectorStart, ruleEnd))]

insertWebPRule(css, originalRule, webpRule) ==
    LET ruleContext == findRuleContext(css, originalRule)
    IN  IF ruleContext.found THEN ReplaceFirst(css, ruleContext.fullRule, webpRule)
        ELSE ReplaceFirst(css, <<originalRule>>, webpRule)

\* one iteration of the loop of processBackgroundImages over the matches;
\* st is the loop state, failing the set of source paths sharp rejects
CssStep(st, match, failing) ==
    LET imageUrl == match.url
    IN  IF shouldSkipUrl(imageUrl) THEN st
        ELSE IF ~isProcessableImage(st.fs, imageUrl) THEN st
        ELSE LET g == generateWebPVersion(st.fs, imageUrl,
                          [ok |-> imageUrl \notin failing, size |-> 1])
             IN  IF g.webpPath = NoUrl THEN [st EXCEPT !.fs = g.fs]
                 ELSE [content |-> insertWebPRule(st.content, match,
                                       createWebPRule(match, g.webpPath)),
                       fs |-> g.fs,
                       changed |-> TRUE,
                       imagesProcessed |-> st.imagesProcessed + 1,
                       webpRulesAdded |-> st.webpRulesAdded + 1]

RECURSIVE CssLoop(_, _, _, _)
CssLoop(st, matches, k, failing) ==
    IF k > Len(matches) THEN st
    ELSE Only({CssLoop(next, matches, k + 1, failing) :
                   next \in {CssStep(st, matches[k], failing)}})

processBackgroundImages(css, fs, failing) ==
    CssLoop([content |-> css, fs |-> fs, changed |-> FALSE,
             imagesProcessed |-> 0, webpRulesAdded |-> 0],
            backgroundImageMatches(css), 1, failing)

-----------------------------------------------------------------------------
(* CSS specification: processBackgroundImages applied, up to MaxCssRuns    *)
(* times, to every stylesheet of up to MaxCssRules rules over CssUrls,     *)
(* next to the files of CssFiles.                                          *)

MaxCssRules == 2
MaxCssRuns == 1

APng == Url("", "a", "png")
BJpg == Url("", "b", "jpg")
GradientPng == Url("", "gradient", "png")
DSvg == Url("", "d", "svg")
AWebp == Url("", "a", "webp")

CssUrls ==
    { APng, BJpg, GradientPng, DSvg, AWebp,
      Url("", "c", "png"),                  \* no such file
      Url("data:", "image/png;base64", ""),
      Url("http://", "a", "png"), Url("https://", "a", "png"),
      Url("//", "a", "png"), Url("#", "a", "") }

CssFiles == {APng, BJpg, GradientPng, DSvg}

Rule(u) == <<Css("sel"), Css("{"), Decl(u), Css("}")>>
Media(u) == <<Css("@media"), Css("{")>> \o Rule(u) \o <<Css("}")>>

CssRules == {Rule(u) : u \in CssUrls} \cup {Media(APng)}

CssInit ==
    /\ cssContent \in {Flatten(rs) : rs \in SeqsUpTo(CssRules, MaxCssRules)}
    /\ cssOriginal = cssContent
    /\ cssFs = [p \in CssFiles |-> File(1, 1, 1, p.ext)]
    /\ cssCreated = {}
    /\ cssResult = [changed |-> FALSE, imagesProcessed |-> 0, webpRulesAdded |-> 0]
    /\ cssRuns = 0
    /\ NotCssIdle

CssProcess ==
    /\ cssRuns < MaxCssRuns
    /\ \E failing \in SUBSET {APng, BJpg} :
          LET r == processBackgroundImages(cssContent, cssFs, failing)
          IN  /\ cssContent' = r.content
              /\ cssFs' = r.fs
              /\ cssCreated' = cssCreated \cup (DOMAIN r.fs \ DOMAIN cssFs)
              /\ cssResult' = [changed |-> r.changed,
                               imagesProcessed |-> r.imagesProcessed,
                               webpRulesAdded |-> r.webpRulesAdded]
    /\ cssRuns' = cssRuns + 1
    /\ UNCHANGED <<cssOriginal, notCssVars>>

SpecCss == CssInit /\ [][CssProcess]_vars

\* the files present before the first call
CssFilesBefore == DOMAIN cssFs \ cssCreated

\* css contains the two generated blocks for the declaration of url
HasSupportsBlocks(css, url) ==
    /\ IndexOf(css, << Css("@supports("), Decl(WebpTestUri), Css(")"), Css("ws"),
                       Css("{"), Css("ws"), Decl(SiblingWebp(url)), Css("ws"), Css("}") >>) # 0
    /\ IndexOf(css, << Css("@supports not ("), Decl(WebpTestUri), Css(")"), Css("ws"),
                       Css("{"), Css("ws"), Decl(url), Css("ws"), Css("}") >>) # 0

\* U is a relative URL that resolves to an existing supported raster file
RelativeExistingRaster(url) ==
    /\ url.scheme = ""
    /\ url \in CssFilesBefore
    /\ url.ext \in {"jpg", "jpeg", "png", "gif", "bmp", "tiff"}

\* C7: for every declaration background-image: url(U) whose U is a relative
\* URL resolving to an existing supported raster file, the first call returns
\* changed = true and content with the @supports block referencing the
\* sibling .webp and the @supports not block with the original declaration.
C7_SupportsBlocksForEveryRaster ==
    cssRuns = 1 =>
        \A i \in 1..Len(cssOriginal) :
            (cssOriginal[i].k = "bg" /\ RelativeExistingRaster(cssOriginal[i].url))
                => /\ cssResult.changed
                   /\ HasSupportsBlocks(cssContent, cssOriginal[i].url)

\* U is a data: URI, an http://, https:// or protocol-relative URL, ends in
\* .webp, contains 'gradient', starts with '#', or does not resolve to an
\* existing supported raster file
NothingToConvert(url) ==
    \/ url.scheme \in {"data:", "http://", "https://", "//", "#"}
    \/ url.ext = "webp"
    \/ url.name = "gradient"
    \/ ~(url \in CssFilesBefore /\ url.ext \in {"jpg", "jpeg", "png", "gif", "bmp", "tiff"})

OnlyUnconvertibleUrls ==
    \A i \in 1..Len(cssOriginal) :
        cssOriginal[i].k = "bg" => NothingToConvert(cssOriginal[i].url)

\* C8: when every background-image URL of the stylesheet is of one of these
\* kinds, processBackgroundImages returns the content unchanged with
\* changed = false and both counters 0, and creates no file.
C8_UnconvertibleUrlsLeftAlone ==
    (cssRuns >= 1 /\ OnlyUnconvertibleUrls) =>
        /\ cssContent = cssOriginal
        /\ cssResult = [changed |-> FALSE, imagesProcessed |-> 0, webpRulesAdded |-> 0]
        /\ cssCreated = {}

\* a processed stylesheet with a gradient-named existing raster and a
\* missing file as its only URLs
C8_Witness ==
    /\ cssRuns >= 1
    /\ OnlyUnconvertibleUrls
    /\ \E i \in 1..Len(cssOriginal) : cssOriginal[i] = Decl(GradientPng)
    /\ \E i \in 1..Len(cssOriginal) : cssOriginal[i] = Decl(Url("", "c", "png"))
    /\ cssContent = cssOriginal

RECURSIVE SelectorFirst(_, _)
\* the first position of the selector that ends at i: just after the nearest
\* brace before it, or the start of the stylesheet
SelectorFirst(css, i) ==
    IF i < 1 THEN 1
    ELSE IF css[i].k \in {"{", "}"} THEN i + 1
    ELSE SelectorFirst(css, i - 1)

RECURSIVE BlockOpen(_, _)
\* the position of the "{" that opens the block holding position i
BlockOpen(css, i) ==
    IF i < 1 THEN 0
    ELSE IF css[i].k = "{" THEN i
    ELSE BlockOpen(css, i - 1)

RECURSIVE BlockClose(_, _, _)
\* the position of the "}" that closes the block holding position i
BlockClose(css, i, depth) ==
    IF i > Len(css) THEN Len(css)
    ELSE IF css[i].k = "{" THEN BlockClose(css, i + 1, depth + 1)
    ELSE IF css[i].k = "}"
         THEN IF depth = 0 THEN i ELSE BlockClose(css, i + 1, depth - 1)
    ELSE BlockClose(css, i + 1, depth)

\* the declaration at position i is the only one of the stylesheet with
\* something to convert
OnlyProcessableAt(css, i) ==
    /\ css[i].k = "bg"
    /\ RelativeExistingRaster(css[i].url)
    /\ ~shouldSkipUrl(css[i].url)
    /\ \A j \in 1..Len(css) : (j # i /\ css[j].k = "bg") => NothingToConvert(css[j].url)

\* the @supports not block of the generated text, holding rule
FallbackBlock(rule) ==
    << Css("@supports not ("), Decl(WebpTestUri), Css(")"), Css("ws"), Css("{"), Css("ws") >>
        \o rule \o << Css("ws"), Css("}") >>

\* after is before with the positions first..last replaced by generated
\* @supports blocks, the last of them the @supports not block holding what
\* was there
EnclosingRuleReplaced(before, after, first, last) ==
    LET rest == Len(before) - last
        midLen == Len(after) - (first - 1) - rest
        mid == SubSeq(after, first, first + midLen - 1)
        fallback == FallbackBlock(SubSeq(before, first, last))
    IN  /\ midLen > Len(fallback)
        /\ SubSeq(after, 1, first - 1) = SubSeq(before, 1, first - 1)
        /\ SubSeq(after, Len(after) - rest + 1, Len(after)) = SubSeq(before, last + 1, Len(before))
        /\ mid[1] = Css("@supports(")
        /\ SubSeq(mid, midLen - Len(fallback) + 1, midLen) = fallback

\* C16: for a processable background-image declaration, exactly the enclosing
\* rule, from the start of its selector through its own closing brace, is
\* replaced by the two @supports blocks, the @supports not block holding the
\* original rule unmodified; everything outside that rule is unchanged.
C16_ExactlyEnclosingRuleReplaced ==
    (cssRuns = 1 /\ cssResult.webpRulesAdded = 1) =>
        \A i \in 1..Len(cssOriginal) :
            OnlyProcessableAt(cssOriginal, i) =>
                EnclosingRuleReplaced(cssOriginal, cssContent,
                    SelectorFirst(cssOriginal, BlockOpen(cssOriginal, i) - 1),
                    BlockClose(cssOriginal, i, 0))

-----------------------------------------------------------------------------
(* CSS rerun specification: processBackgroundImages applied again and      *)
(* again, up to MaxCssReruns times, to its own output, starting from every *)
(* stylesheet of up to MaxCssRerunRules rules, with or without the WebP    *)
(* siblings already on disk; cssOriginal is the content the last run       *)
(* started from.                                                           *)

MaxCssReruns == 2
MaxCssRerunRules == 1

CssRerunInit ==
    /\ cssContent \in {Flatten(rs) : rs \in SeqsUpTo(CssRules, MaxCssRerunRules)}
    /\ cssOriginal = cssContent
    /\ \E present \in SUBSET {SiblingWebp(APng), SiblingWebp(BJpg)} :
          cssFs = [p \in CssFiles \cup present |-> File(1, 1, 1, p.ext)]
    /\ cssCreated = {}
    /\ cssResult = [changed |-> FALSE, imagesProcessed |-> 0, webpRulesAdded |-> 0]
    /\ cssRuns = 0
    /\ NotCssIdle

CssReprocess ==
    /\ cssRuns < MaxCssReruns
    /\ \E failing \in SUBSET {APng, BJpg} :
          \E r \in {processBackgroundImages(cssContent, cssFs, failing)} :
              /\ cssContent' = r.content
              /\ cssFs' = r.fs
              /\ cssCreated' = cssCreated \cup (DOMAIN r.fs \ DOMAIN cssFs)
              /\ cssResult' = [changed |-> r.changed,
                               imagesProcessed |-> r.imagesProcessed,
                               webpRulesAdded |-> r.webpRulesAdded]
    /\ cssOriginal' = cssContent
    /\ cssRuns' = cssRuns + 1
    /\ UNCHANGED notCssVars

SpecCssRerun == CssRerunInit /\ [][CssReprocess]_vars

\* the last run started from a stylesheet an earlier run had rewritten, with
\* the WebP sibling of every rewritten declaration present
CssAlreadyRewritten ==
    /\ cssRuns >= 2
    /\ IndexOf(cssOriginal, <<Css("@supports(")>>) # 0
    /\ \A i \in 1..Len(cssOriginal) :
          (cssOriginal[i].k = "bg" /\ cssOriginal[i].url.ext = "webp")
              => cssOriginal[i].url \in DOMAIN cssFs

\* C17: running the rewriter again on a stylesheet it has already rewritten
\* returns changed = false and the content it was given.
C17_CssRerunChangesNothing ==
    CssAlreadyRewritten =>
        /\ ~cssResult.changed
        /\ cssContent = cssOriginal

-----------------------------------------------------------------------------
(* Batch driver.  The documents are numbered from 1; an error entry that   *)
(* names no document ('processor', 'size-checker') has file 0.  The        *)
(* outcome of one stage on one document is                                 *)
(*   image: "same" | "changed" | "throws"                                  *)
(*   text:  "same" | "hanging" | "superscript" | "throws"                  *)
(*   css:   "same" | "changed" | "readFails" | "writeFails"                *)
(* CssOptimizer.processDocument catches its own errors and returns its     *)
(* result: unchanged when the read or the rewrite failed, changed = true   *)
(* when the write failed, each time with the error in the result's own     *)
(* errors list.                                                            *)

ImageOutcomes == {"same", "changed", "throws"}
TextOutcomes == {"same", "hanging", "superscript", "throws"}
CssOutcomes == {"same", "changed", "readFails", "writeFails"}

\* the catch block of the loop body that swallows the error
DropFileError(result, file, stage) == result

\* the catch block of the loop body: one ProcessingError for the file
RecordFileError(result, file, stage) ==
    [result EXCEPT !.errors = Append(@, [file |-> file, message |-> stage])]

\* which stages run for a document
RunsImage(modules) == "image-optimization" \in modules /\ "imageOptimization.enabled" \in modules
RunsText(modules) == "text-processing" \in modules
RunsCss(modules) == "css-optimization" \in modules /\ "cssOptimization.enabled" \in modules

\* the loop body for one document; o gives the outcome of each stage
ProcessOneFile(result, file, modules, o) ==
    LET img == RunsImage(modules)
        txt == RunsText(modules)
        css == RunsCss(modules)
        afterImage == IF img /\ o.image = "changed"
                      THEN [result EXCEPT !.imagesProcessed = @ + 1] ELSE result
        afterText == IF ~txt THEN afterImage
                     ELSE [afterImage EXCEPT
                             !.hangingPrepositionsFixed =
                                 @ + (IF o.text = "hanging" THEN 1 ELSE 0),
                             !.superscriptReplacements =
                                 @ + (IF o.text = "superscript" THEN 1 ELSE 0)]
        afterCss == IF css /\ o.css \in {"changed", "writeFails"}
                    THEN [afterText EXCEPT !.cssProcessed = @ + 1] ELSE afterText
        fileChanged == \/ img /\ o.image = "changed"
                       \/ txt /\ o.text \in {"hanging", "superscript"}
                       \/ css /\ o.css \in {"changed", "writeFails"}
    IN  IF img /\ o.image = "throws"
        THEN [result |-> RecordFileError(result, file, "image"),
              threw |-> TRUE, counted |-> FALSE, failed |-> TRUE]
        ELSE IF txt /\ o.text = "throws"
        THEN [result |-> RecordFileError(afterImage, file, "text"),
              threw |-> TRUE, counted |-> FALSE, failed |-> TRUE]
        ELSE [result |-> IF fileChanged
                         THEN [afterCss EXCEPT !.changedFiles = @ + 1] ELSE afterCss,
              threw |-> FALSE, counted |-> fileChanged,
              failed |-> css /\ o.css \in {"readFails", "writeFails"}]

-----------------------------------------------------------------------------
(* Batch specification: processFiles over up to MaxBatchFiles documents,   *)
(* for every selection of modules and every outcome of every stage.        *)

MaxBatchFiles == 2

BatchModuleNames ==
    {"image-optimization", "text-processing", "css-optimization", "size-checking",
     "imageOptimization.enabled", "cssOptimization.enabled"}

BatchInit ==
    /\ batchFiles \in 0..MaxBatchFiles
    /\ batchModules \in SUBSET BatchModuleNames
    /\ batchPc = "scan"
    /\ batchNext = 1
    /\ batchResult = EmptyResult
    /\ batchThrew = {}
    /\ batchCounted = {}
    /\ batchVisited = <<>>
    /\ batchFailed = {}
    /\ NotBatchIdle

\* scanFiles() returns the list
BatchScan ==
    /\ batchPc = "scan"
    /\ batchResult' = [batchResult EXCEPT !.totalFiles = batchFiles]
    /\ batchPc' = "loop"
    /\ UNCHANGED <<batchFiles, batchModules, batchNext, batchThrew, batchCounted,
                   batchVisited, batchFailed, notBatchVars>>

\* scanFiles() rejects: the outer catch records it and rethrows
BatchScanFails ==
    /\ batchPc = "scan"
    /\ batchResult' = [batchResult EXCEPT
                         !.errors = Append(@, [file |-> 0, message |-> "processor"])]
    /\ batchPc' = "threw"
    /\ UNCHANGED <<batchFiles, batchModules, batchNext, batchThrew, batchCounted,
                   batchVisited, batchFailed, notBatchVars>>

\* one iteration of for (const file of files)
BatchProcessFile ==
    /\ batchPc = "loop"
    /\ batchNext <= batchFiles
    /\ \E o \in [image : ImageOutcomes, text : TextOutcomes, css : CssOutcomes] :
          LET r == ProcessOneFile(batchResult, batchNext, batchModules, o)
          IN  /\ batchResult' = r.result
              /\ batchThrew' = IF r.threw THEN batchThrew \cup {batchNext} ELSE batchThrew
              /\ batchCounted' = IF r.counted THEN batchCounted \cup {batchNext}
                                  ELSE batchCounted
              /\ batchFailed' = IF r.failed THEN batchFailed \cup {batchNext}
                                 ELSE batchFailed
    /\ batchVisited' = Append(batchVisited, batchNext)
    /\ batchNext' = batchNext + 1
    /\ UNCHANGED <<batchFiles, batchModules, batchPc, notBatchVars>>

\* the loop is over
BatchLoopDone ==
    /\ batchPc = "loop"
    /\ batchNext > batchFiles
    /\ batchPc' = "size"
    /\ UNCHANGED <<batchFiles, batchModules, batchNext, batchResult, batchThrew,
                   batchCounted, batchVisited, batchFailed, notBatchVars>>

\* the size check, with its own try/catch, then the summary and the return
BatchSizeCheck ==
    /\ batchPc = "size"
    /\ \E sizeOutcome \in {"none", "warning", "throws"} :
          batchResult' =
              IF "size-checking" \notin batchModules THEN batchResult
              ELSE IF sizeOutcome = "throws"
                   THEN [batchResult EXCEPT
                           !.errors = Append(@, [file |-> 0, message |-> "size-checker"])]
              ELSE IF sizeOutcome = "warning"
                   THEN [batchResult EXCEPT !.warnings = @ + 1]
              ELSE batchResult
    /\ batchPc' = "returned"
    /\ UNCHANGED <<batchFiles, batchModules, batchNext, batchThrew, batchCounted,
                   batchVisited, batchFailed, notBatchVars>>

BatchNext ==
    \/ BatchScan
    \/ BatchScanFails
    \/ BatchProcessFile
    \/ BatchLoopDone
    \/ BatchSizeCheck

SpecBatch == BatchInit /\ [][BatchNext]_vars

\* number of entries of result.errors recorded for document i
ErrorEntriesFor(i) ==
    Cardinality({k \in 1..Len(batchResult.errors) : batchResult.errors[k].file = i})

\* C9: a document in whose processing a stage threw has exactly one error
\* entry and is not counted in changedFiles; the loop still hands every
\* later document to the stages; processFiles does not throw because of it.
C9_FileErrorIsolated ==
    /\ \A i \in batchThrew : ErrorEntriesFor(i) = 1 /\ i \notin batchCounted
    /\ batchResult.changedFiles = Cardinality(batchCounted)
    /\ batchVisited = [i \in 1..(batchNext - 1) |-> i]
    /\ batchPc \in {"size", "returned"} => Len(batchVisited) = batchFiles
    /\ batchPc = "threw" => batchThrew = {}

\* processFiles has returned after the first document threw and the second
\* one was changed
C9_Witness ==
    /\ batchPc = "returned"
    /\ batchThrew = {1}
    /\ batchCounted = {2}
    /\ batchResult.changedFiles = 1
    /\ ErrorEntriesFor(1) = 1

-----------------------------------------------------------------------------
(* PNG recompression specification: recompressPng called up to MaxPngCalls *)
(* times on one file, for sizes, dimensions, thresholds and recompressed   *)
(* lengths on both sides of every comparison.                              *)

MaxPngCalls == 2

PngSizes == {1500, 3000}
PngSides == {0, 10, 20}
PngSizeThresholds == {1500, 3000, 3001}
PngPixelsThresholds == {100, 200, 401}
PngBufferLengths == {475, 476, 1975, 1976, 3000}

PngInit ==
    /\ \E size \in PngSizes, width \in PngSides, height \in PngSides,
          format \in {"png", "jpeg"} :
          pngFile = File(size, width, height, format)
    /\ pngOptions \in [sizeThreshold : PngSizeThresholds,
                        pixelsThreshold : PngPixelsThresholds]
    /\ pngBefore = pngFile
    /\ pngBuffer = 0
    /\ pngResult = PngResult(FALSE, FALSE, 0, 0)
    /\ pngCalls = 0
    /\ NotPngIdle

RecompressPng ==
    /\ pngCalls < MaxPngCalls
    /\ \E ok \in BOOLEAN, bufferLength \in PngBufferLengths :
          LET r == recompressPng(pngFile, pngOptions, [ok |-> ok, size |-> bufferLength])
          IN  /\ pngFile' = r.file
              /\ pngResult' = r.result
              /\ pngBuffer' = bufferLength
    /\ pngBefore' = pngFile
    /\ pngCalls' = pngCalls + 1
    /\ UNCHANGED <<pngOptions, notPngVars>>

SpecPng == PngInit /\ [][RecompressPng]_vars

PngUntouched ==
    /\ pngFile = pngBefore
    /\ pngResult.compressed = FALSE
    /\ pngResult.originalSize = pngBefore.size
    /\ pngResult.newSize = pngBefore.size

PngOverwritten ==
    /\ pngFile = [pngBefore EXCEPT !.size = pngBuffer]
    /\ pngFile # pngBefore
    /\ pngResult.compressed = TRUE
    /\ pngResult.originalSize = pngBefore.size
    /\ pngResult.newSize = pngBuffer

PngBelowThresholds ==
    /\ pngBefore.size < pngOptions.sizeThreshold
    /\ pngBefore.width * pngBefore.height < pngOptions.pixelsThreshold

\* C10: a returning recompressPng call on a PNG leaves the file untouched
\* (compressed = false, sizes equal) when the file is below both thresholds;
\* otherwise it overwrites the file exactly when the recompressed length
\* plus the 1024-byte slack is strictly less than the original size, and
\* leaves it untouched with compressed = false and sizes equal if not.
C10_RecompressThresholds ==
    (pngCalls >= 1 /\ ~pngResult.threw /\ pngBefore.format = "png") =>
        IF PngBelowThresholds THEN PngUntouched
        ELSE IF pngBuffer + 1024 < pngBefore.size THEN PngOverwritten
        ELSE PngUntouched

\* a PNG at the size threshold whose recompression misses the slack by one
\* byte, left untouched
C10_Witness ==
    /\ pngCalls >= 1
    /\ ~pngResult.threw
    /\ pngBefore.format = "png"
    /\ pngBefore.size = pngOptions.sizeThreshold
    /\ pngBuffer + 1024 = pngBefore.size
    /\ PngUntouched

\* a PNG over the pixel threshold only, overwritten by a recompression that
\* clears the slack by one byte
C10_WitnessOverwritten ==
    /\ pngCalls >= 1
    /\ pngBefore.size < pngOptions.sizeThreshold
    /\ pngBuffer + 1024 + 1 = pngBefore.size
    /\ PngOverwritten


--------------------------------------------------------------------------------
\* The derivative generator called repeatedly: SharpProcessor.downscale and
\* SharpProcessor.convertToWebp over one directory of images.  The codec is an
\* input of every call: it either completes with an output of some size or
\* rejects.

MaxDerivCalls == 3

MobileWidth1x == 640
RetinaMultiplier == 2

\* an image path: the pieces its base name is put together from, and its
\* extension (<<"w", "-mob">> and "jpg" for w-mob.jpg)
ImgPath(base, ext) == [base |-> base, ext |-> ext]
NoPath == ImgPath(<<>>, "")
NoFile == File(0, 0, 0, "")

WJpg == ImgPath(<<"w">>, "jpg")
SPng == ImgPath(<<"s">>, "png")
WMobJpg == ImgPath(<<"w", "-mob">>, "jpg")
SMobPng == ImgPath(<<"s", "-mob">>, "png")
WWebp == ImgPath(<<"w">>, "webp")
WMobWebp == ImgPath(<<"w", "-mob">>, "webp")

DerivSources == {WJpg, SPng, WMobJpg}
DerivDests == {WMobJpg, SMobPng, WWebp, WMobWebp}
DerivCodecs == [ok : BOOLEAN, size : {1, 2}]
DerivOriginals == (WJpg :> File(9, 1000, 500, "jpeg")) @@ (SPng :> File(5, 500, 250, "png"))

DerivInit ==
    /\ derivFs \in {DerivOriginals, WriteFile(DerivOriginals, WWebp, File(3, 1000, 500, "webp"))}
    /\ derivBefore = derivFs
    /\ derivLast = [op |-> "", src |-> NoPath, dest |-> NoPath, targetWidth |-> 0,
                    result |-> DerivResult(FALSE, FALSE, FALSE, 0, 0)]
    /\ derivStarted = [d \in DerivDests |-> 0]
    /\ derivCompleted = [d \in DerivDests |-> 0]
    /\ derivFirst = [d \in DerivDests |-> IF d \in DOMAIN derivFs THEN derivFs[d] ELSE NoFile]
    /\ derivCalls = 0
    /\ NotDerivIdle

\* bookkeeping of one call: what it returned and what it did to the files
DerivRecord(op, src, dest, targetWidth, r) ==
    /\ derivBefore' = derivFs
    /\ derivFs' = r.fs
    /\ derivLast' = [op |-> op, src |-> src, dest |-> dest, targetWidth |-> targetWidth,
                     result |-> r.result]
    /\ derivStarted' = [derivStarted EXCEPT ![dest] = @ + (IF r.result.codecRan THEN 1 ELSE 0)]
    /\ derivCompleted' = [derivCompleted EXCEPT
                             ![dest] = @ + (IF r.result.codecRan /\ ~r.result.threw
                                            THEN 1 ELSE 0)]
    /\ derivFirst' = [derivFirst EXCEPT
                         ![dest] = IF dest \notin DOMAIN derivFs /\ dest \in DOMAIN r.fs
                                   THEN r.fs[dest] ELSE @]
    /\ derivCalls' = derivCalls + 1
    /\ UNCHANGED notDerivVars

Downscale ==
    /\ derivCalls < MaxDerivCalls
    /\ \E srcPath \in DerivSources, destPath \in {WMobJpg, SMobPng},
          targetWidth \in {MobileWidth1x, MobileWidth1x * RetinaMultiplier},
          codec \in DerivCodecs :
            DerivRecord("downscale", srcPath, destPath, targetWidth,
                        downscale(derivFs, srcPath, destPath, targetWidth, codec))

ConvertToWebp ==
    /\ derivCalls < MaxDerivCalls
    /\ \E srcPath \in DerivSources, destPath \in {WWebp, WMobWebp}, codec \in DerivCodecs :
            DerivRecord("convertToWebp", srcPath, destPath, 0,
                        convertToWebp(derivFs, srcPath, destPath, codec))

SpecDeriv == DerivInit /\ [][Downscale \/ ConvertToWebp]_vars

\* the last call was a downscale that found no destination and made one
DerivDownscaled ==
    /\ derivLast.op = "downscale"
    /\ derivLast.dest \notin DOMAIN derivBefore
    /\ derivLast.result.created

\* C15: a downscale that makes its destination never makes it wider than the
\* source: a source no wider than the target width is copied as it is, without
\* a resize; a wider source gives a destination of the target width.
C15_DownscaleNeverEnlarges ==
    DerivDownscaled =>
        LET src == derivBefore[derivLast.src]
            dest == derivFs[derivLast.dest]
        IN  /\ dest.width <= src.width
            /\ src.width <= derivLast.targetWidth
                  => (dest = src /\ ~derivLast.result.codecRan)
            /\ src.width > derivLast.targetWidth => dest.width = derivLast.targetWidth

\* a source narrower than the target width, copied
C15_Witness ==
    /\ DerivDownscaled
    /\ derivBefore[derivLast.src].width < derivLast.targetWidth
    /\ derivFs[derivLast.dest] = derivBefore[derivLast.src]

\* the last call found its destination already there
DerivFoundExisting == derivCalls > 0 /\ derivLast.dest \in DOMAIN derivBefore

\* ... and then ran no codec, wrote nothing, and returned created = false with
\* the size of the file that was there
DerivExistingLeftAlone ==
    DerivFoundExisting =>
        /\ ~derivLast.result.codecRan
        /\ ~derivLast.result.threw
        /\ derivFs = derivBefore
        /\ ~derivLast.result.created
        /\ derivLast.result.newSize = derivBefore[derivLast.dest].size

\* a destination keeps the content it was first created with
DerivContentStable ==
    \A d \in DerivDests :
        derivFirst[d] # NoFile => d \in DOMAIN derivFs /\ derivFs[d] = derivFirst[d]

\* C2 (as stated): a call that finds its destination runs no codec, writes
\* nothing and returns created = false with the existing size; and over any
\* sequence of calls for one destination the codec runs at most once and the
\* content never changes once created.
C2_CodecRunsAtMostOnce ==
    /\ DerivExistingLeftAlone
    /\ \A d \in DerivDests : derivStarted[d] <= 1
    /\ DerivContentStable

\* C2 (amended): a call that finds its destination runs no codec, writes
\* nothing and returns created = false with the existing size; over any sequence
\* of calls for one destination the codec completes at most once (a codec
\* operation that rejects leaves no file, so a later call runs it again), and
\* the content never changes once created.
C2_CodecCompletesAtMostOnce ==
    /\ DerivExistingLeftAlone
    /\ \A d \in DerivDests : derivCompleted[d] <= 1
    /\ DerivContentStable

\* a destination whose codec was run twice, completed once, and was then
\* asked for again
C2_Witness ==
    /\ DerivFoundExisting
    /\ derivStarted[derivLast.dest] = 2
    /\ derivCompleted[derivLast.dest] = 1

--------------------------------------------------------------------------------
\* The image rewriter: ImageOptimizer.processDocument over a document of markup
\* tokens and one directory of images next to it.  White space between tags and
\* the srcset values are not represented: no decision of the rewriter reads
\* them.

OnlyDownscaleIfWiderThan == 800
MobileMedia == "(max-width: 640px)"
RasterExts == {"jpg", "jpeg", "png", "webp"}
PngRecompressOptions ==
    [sizeThreshold |-> 8 * 1024 * 1024, pixelsThreshold |-> 12000000]

\* mime.lookup(ext)
MimeOf(ext) ==
    IF ext \in {"jpg", "jpeg"} THEN "image/jpeg"
    ELSE IF ext = "png" THEN "image/png"
    ELSE IF ext = "webp" THEN "image/webp"
    ELSE ""

ISvg == ImgPath(<<"i">>, "svg")
VWebp == ImgPath(<<"v">>, "webp")
EJpg == ImgPath(<<"e">>, "jpg")
BPng == ImgPath(<<"b">>, "png")
BOrigPng == ImgPath(<<"b", "_orig">>, "png")
AssetW == "{{ asset('w.jpg') }}"

\* FileUtils.extractSrc: "" stands for null; the asset() helper is unwrapped,
\* a plain reference has no quotes or brackets to strip
extractSrc(raw) ==
    IF raw = "" THEN ""
    ELSE IF raw = AssetW THEN "w.jpg"
    ELSE raw

\* the path a reference names, relative to the document
RefPath(imgRef) ==
    IF imgRef = "w.jpg" THEN WJpg
    ELSE IF imgRef = "s.png" THEN SPng
    ELSE IF imgRef = "w-mob.jpg" THEN WMobJpg
    ELSE IF imgRef = "i.svg" THEN ISvg
    ELSE IF imgRef = "v.webp" THEN VWebp
    ELSE IF imgRef = "e.jpg" THEN EJpg
    ELSE IF imgRef = "b.png" THEN BPng
    ELSE IF imgRef = "b_orig.png" THEN BOrigPng
    ELSE NoPath

\* PathResolver.resolveImagePath; NoPath stands for null
resolveImagePath(fs, imgRef) ==
    IF imgRef = "" THEN NoPath
    ELSE IF RefPath(imgRef) \in DOMAIN fs THEN RefPath(imgRef)
    ELSE NoPath

isRasterImage(path) == path.ext \in RasterExts

buildDerivatives(absPath) ==
    [ext |-> absPath.ext,
     mob1x |-> ImgPath(Append(absPath.base, "-mob"), absPath.ext),
     mob2x |-> ImgPath(Append(absPath.base, "-mob@2x"), absPath.ext),
     webp |-> ImgPath(absPath.base, "webp"),
     mob1xWebp |-> ImgPath(Append(absPath.base, "-mob"), "webp"),
     mob2xWebp |-> ImgPath(Append(absPath.base, "-mob@2x"), "webp")]

\* path.join(dir, `${base}${suffix}${ext}`) with the default suffix
BackupPath(filePath) == ImgPath(Append(filePath.base, "_orig"), filePath.ext)

\* a backup that copies the image over an existing backup
backupFileOverwriting(fs, filePath) ==
    WriteFile(fs, BackupPath(filePath), fs[filePath])

backupFile(fs, filePath) ==
    IF BackupPath(filePath) \in DOMAIN fs THEN fs
    ELSE WriteFile(fs, BackupPath(filePath), fs[filePath])

\* the value of the src attribute as cheerio reads it
CheerioSrc(imgTag) == imgTag.src

\* the first match of /src\s*=\s*"([^"]*)"/i in the tag: the pattern is not
\* anchored at an attribute name, so it also matches inside data-src="..."
RegexSrc(imgTag) == IF imgTag.dsrc # "" THEN imgTag.dsrc ELSE imgTag.src

\* one codec operation of a run: it rejects for the destinations in `failing`
CodecFor(destPath, failing) == [ok |-> destPath \notin failing, size |-> 1]

\* one awaited derivative call
ApplyDerivOp(fs, o, failing) ==
    LET r == IF o.op = "downscale"
             THEN downscale(fs, o.src, o.dest, o.width, CodecFor(o.dest, failing))
             ELSE convertToWebp(fs, o.src, o.dest, CodecFor(o.dest, failing))
    IN  [fs |-> r.fs, threw |-> r.result.threw]

RECURSIVE RunDerivOps(_, _, _, _)
\* the derivative calls in sequence, up to the first that rejects
RunDerivOps(st, ops, k, failing) ==
    IF k > Len(ops) \/ st.threw THEN st
    ELSE Only({RunDerivOps(next, ops, k + 1, failing) :
                  next \in {ApplyDerivOp(st.fs, ops[k], failing)}})

\* the derivative calls for one image: mobile versions and their WebP when
\* needDownscale, then the desktop WebP
DerivOps(imgAbs, derivatives, needDownscale) ==
    (IF needDownscale
     THEN << [op |-> "downscale", src |-> imgAbs, dest |-> derivatives.mob1x,
              width |-> MobileWidth1x],
             [op |-> "downscale", src |-> imgAbs, dest |-> derivatives.mob2x,
              width |-> MobileWidth1x * RetinaMultiplier],
             [op |-> "webp", src |-> derivatives.mob1x, dest |-> derivatives.mob1xWebp,
              width |-> 0],
             [op |-> "webp", src |-> derivatives.mob2x, dest |-> derivatives.mob2xWebp,
              width |-> 0] >>
     ELSE <<>>)
    \o << [op |-> "webp", src |-> imgAbs, dest |-> derivatives.webp, width |-> 0] >>

\* an image as wide as the threshold counts as needing mobile versions
NeedDownscaleFromThreshold(origWidth) == origWidth >= OnlyDownscaleIfWiderThan

\* const needDownscale = origWidth > onlyDownscaleIfWiderThan
NeedDownscale(origWidth) == origWidth > OnlyDownscaleIfWiderThan

\* PNG recompression, metadata, and the mobile and WebP derivatives of one image
GenerateDerivatives(fs, imgAbs, failing, pngOk) ==
    LET derivatives == buildDerivatives(imgAbs)
    IN  Only({
          Only({ [fs |-> s.fs, threw |-> s.threw, derivatives |-> derivatives,
                  needDownscale |-> NeedDownscale(getMetadataWidth(fs0, imgAbs))] :
                 s \in {RunDerivOps([fs |-> fs0, threw |-> FALSE],
                            DerivOps(imgAbs, derivatives,
                                NeedDownscale(getMetadataWidth(fs0, imgAbs))),
                            1, failing)} }) :
          fs0 \in {WriteFile(fs, imgAbs,
                       recompressPng(fs[imgAbs], PngRecompressOptions,
                                     [ok |-> pngOk, size |-> 1]).file)} })

\* a check that sees only the sources carrying the marker attribute
hasMarkedSource(inner, type, media) ==
    \E i \in 1..Len(inner) :
        /\ inner[i].k = "source" /\ inner[i].marker
        /\ inner[i].type = type /\ inner[i].media = media

hasSourceCheerio(inner, type, media) ==
    \E i \in 1..Len(inner) :
        inner[i].k = "source" /\ inner[i].type = type /\ inner[i].media = media

buildSourceElements(derivatives, needDownscale, inner) ==
    (IF needDownscale /\ ~hasSourceCheerio(inner, "image/webp", MobileMedia)
     THEN <<Source("image/webp", MobileMedia, TRUE)>> ELSE <<>>)
    \o (IF needDownscale /\ ~hasSourceCheerio(inner, MimeOf(derivatives.ext), MobileMedia)
        THEN <<Source(MimeOf(derivatives.ext), MobileMedia, TRUE)>> ELSE <<>>)
    \o (IF ~hasSourceCheerio(inner, "image/webp", "")
        THEN <<Source("image/webp", "", TRUE)>> ELSE <<>>)

\* what processPictureFragment and convertImgToPicture hand back: isNull when
\* they return null, threw when they reject
Fragment(fs, threw, isNull, updated) ==
    [fs |-> fs, threw |-> threw, isNull |-> isNull, updated |-> updated]

\* the rest of processPictureFragment once the derivatives are made
PictureFragmentFrom(g, innerHtml) ==
    LET sourcesToAdd == buildSourceElements(g.derivatives, g.needDownscale, innerHtml)
        insertPos == Min({i \in 1..Len(innerHtml) : innerHtml[i].k \in {"source", "img"}})
        newInner == SubSeq(innerHtml, 1, insertPos - 1) \o sourcesToAdd
                    \o SubSeq(innerHtml, insertPos, Len(innerHtml))
    IN  IF g.threw THEN Fragment(g.fs, TRUE, TRUE, <<>>)
        ELSE IF sourcesToAdd = <<>> THEN Fragment(g.fs, FALSE, TRUE, <<>>)
        ELSE Fragment(g.fs, FALSE, FALSE, <<PicOpen>> \o newInner \o <<PicClose>>)

processPictureFragment(fs, innerHtml, failing, pngOk) ==
    LET imgs == {i \in 1..Len(innerHtml) : innerHtml[i].k = "img"}
    IN  IF imgs = {} THEN Fragment(fs, FALSE, TRUE, <<>>)
        ELSE
        LET rawSrc == CheerioSrc(innerHtml[Min(imgs)])
            imgAbs == resolveImagePath(fs, extractSrc(rawSrc))
        IN  IF imgAbs = NoPath \/ ~isRasterImage(imgAbs) THEN Fragment(fs, FALSE, TRUE, <<>>)
            ELSE Only({PictureFragmentFrom(g, innerHtml) :
                          g \in {GenerateDerivatives(backupFile(fs, imgAbs), imgAbs,
                                                     failing, pngOk)}})

\* the rest of convertImgToPicture once the derivatives are made
WrappedImgFrom(g, imgTag) ==
    LET sources ==
            (IF g.needDownscale
             THEN <<Source("image/webp", MobileMedia, TRUE),
                    Source(MimeOf(g.derivatives.ext), MobileMedia, TRUE)>>
             ELSE <<>>) \o <<Source("image/webp", "", TRUE)>>
    IN  IF g.threw THEN Fragment(g.fs, TRUE, TRUE, <<>>)
        ELSE Fragment(g.fs, FALSE, FALSE, <<PicOpen>> \o sources \o <<imgTag, PicClose>>)

convertImgToPicture(fs, imgTag, failing, pngOk) ==
    LET rawSrc == RegexSrc(imgTag)
        imgAbs == resolveImagePath(fs, extractSrc(rawSrc))
    IN  IF rawSrc = "" THEN Fragment(fs, FALSE, TRUE, <<>>)
        ELSE IF imgAbs = NoPath \/ ~isRasterImage(imgAbs) THEN Fragment(fs, FALSE, TRUE, <<>>)
        ELSE Only({WrappedImgFrom(g, imgTag) :
                      g \in {GenerateDerivatives(backupFile(fs, imgAbs), imgAbs,
                                                 failing, pngOk)}})

\* output.slice(0, start) + updated + output.slice(end)
Splice(output, start, end, updated) ==
    SubSeq(output, 1, start - 1) \o updated \o SubSeq(output, end, Len(output))

\* a step that splices at the region's position in the original text,
\* keeping no running length delta
RegionStepNoDelta(st, block, r) ==
    IF r.threw THEN [st EXCEPT !.fs = r.fs, !.threw = TRUE]
    ELSE IF r.isNull THEN [st EXCEPT !.fs = r.fs]
    ELSE [fs |-> r.fs, threw |-> FALSE,
          output |-> Splice(st.output, block.start, block.end, r.updated),
          offset |-> 0,
          anyChanged |-> TRUE]

\* one step of either loop of processGenericRegion, given what the block's
\* rewrite handed back
RegionStep(st, block, r) ==
    IF r.threw THEN [st EXCEPT !.fs = r.fs, !.threw = TRUE]
    ELSE IF r.isNull THEN [st EXCEPT !.fs = r.fs]
    ELSE [fs |-> r.fs, threw |-> FALSE,
          output |-> Splice(st.output, block.start + st.offset, block.end + st.offset,
                            r.updated),
          offset |-> st.offset + Len(r.updated) - (block.end - block.start),
          anyChanged |-> TRUE]

RECURSIVE PictureLoop(_, _, _, _, _)
PictureLoop(st, blocks, k, failing, pngOk) ==
    IF k > Len(blocks) \/ st.threw THEN st
    ELSE Only({PictureLoop(RegionStep(st, blocks[k], r), blocks, k + 1, failing, pngOk) :
                  r \in {processPictureFragment(st.fs, blocks[k].inner, failing, pngOk)}})

RECURSIVE StandaloneLoop(_, _, _, _, _)
StandaloneLoop(st, blocks, k, failing, pngOk) ==
    IF k > Len(blocks) \/ st.threw THEN st
    ELSE Only({StandaloneLoop(RegionStep(st, blocks[k], r), blocks, k + 1, failing, pngOk) :
                  r \in {convertImgToPicture(st.fs, blocks[k].imgTag, failing, pngOk)}})

processGenericRegion(fs, region, failing, pngOk) ==
    Only({StandaloneLoop([first EXCEPT !.offset = 0],
                         findStandaloneImages(first.output), 1, failing, pngOk) :
             first \in {PictureLoop([fs |-> fs, threw |-> FALSE, output |-> region,
                                     offset |-> 0, anyChanged |-> FALSE],
                                    findPictureBlocks(region), 1, failing, pngOk)}})

\* Documents of up to MaxImgLen tags, rewritten up to MaxImgRuns times

MaxImgLen == 3
MaxImgRuns == 2

ImgAlphabet ==
    {PicOpen, PicClose, Txt, Source("image/webp", "", FALSE),
     Img("w.jpg", ""), Img("s.png", ""), Img("w.jpg", "s.png"), Img("w-mob.jpg", ""),
     Img(AssetW, ""), Img("i.svg", ""), Img("v.webp", "")}

ImgOriginals ==
    (WJpg :> File(9, 1000, 500, "jpeg")) @@ (SPng :> File(5, 500, 250, "png"))
    @@ (ISvg :> File(2, 0, 0, "svg")) @@ (VWebp :> File(7, 1000, 500, "webp"))
    @@ (EJpg :> File(8, OnlyDownscaleIfWiderThan, 400, "jpeg"))

\* the derivative paths a run may have to create
ImgDests ==
    LET d == buildDerivatives(WJpg)
    IN  {d.mob1x, d.mob2x, d.webp, d.mob1xWebp, d.mob2xWebp, buildDerivatives(SPng).webp}

ImgInit ==
    /\ imgDoc \in SeqsUpTo(ImgAlphabet, MaxImgLen)
    /\ imgPrevDoc = imgDoc
    /\ imgFs = ImgOriginals
    /\ imgResult = [changed |-> FALSE, threw |-> FALSE]
    /\ imgPrevResult = [changed |-> FALSE, threw |-> FALSE]
    /\ imgRuns = 0
    /\ NotImgIdle

\* ImageOptimizer.processDocument: the document is written back only when the
\* run returned changed = true; a run that rejects writes nothing
ProcessDocument ==
    /\ imgRuns < MaxImgRuns
    /\ \E failing \in {{}} \cup {{q} : q \in ImgDests}, pngOk \in BOOLEAN :
          \E result \in {processGenericRegion(imgFs, imgDoc, failing, pngOk)} :
              /\ imgFs' = result.fs
              /\ imgPrevDoc' = imgDoc
              /\ imgDoc' = IF ~result.threw /\ result.anyChanged THEN result.output
                           ELSE imgDoc
              /\ imgPrevResult' = imgResult
              /\ imgResult' = [changed |-> ~result.threw /\ result.anyChanged,
                               threw |-> result.threw]
    /\ imgRuns' = imgRuns + 1
    /\ UNCHANGED notImgVars

SpecImg == ImgInit /\ [][ProcessDocument]_vars

\* the last run was a second run: the run before it returned, and so did it
ImgSecondRun == imgRuns >= 2 /\ ~imgPrevResult.threw /\ ~imgResult.threw

\* C1: a run on a document that an earlier run has already rewritten, with the
\* same images and configuration, reports changed = false and leaves the
\* document as the earlier run wrote it.
C1_RewriteIdempotent ==
    ImgSecondRun => ~imgResult.changed /\ imgDoc = imgPrevDoc

\* C18: a resize or WebP conversion that throws while the derivatives of one
\* image are produced is caught where it happens: the run still returns, so
\* the document is not reported as failed because of it.
C18_DerivativeFailureCaught ==
    imgRuns >= 1 => ~imgResult.threw

\* DEFAULT_CONFIG.imageOptimization.wrapLooseImg; no code reads it
WrapLooseImg == FALSE

\* the standalone <img> tags of a document, in order
StandaloneTags(text) ==
    [i \in 1..Len(findStandaloneImages(text)) |-> findStandaloneImages(text)[i].imgTag]

\* C19: standalone <img> tags are wrapped in <picture> only when wrapLooseImg
\* is true; with wrapLooseImg false, the default, a run leaves every
\* standalone <img> of the document as it was.
C19_LooseImgWrappedOnlyWhenConfigured ==
    (imgRuns >= 1 /\ ~WrapLooseImg) =>
        StandaloneTags(imgDoc) = StandaloneTags(imgPrevDoc)

\* two tool-marked <source> elements of one block with the same type and media
DuplicateSources(inner) ==
    \E i, j \in 1..Len(inner) :
        /\ i < j
        /\ inner[i].k = "source" /\ inner[i].marker
        /\ inner[j].k = "source" /\ inner[j].marker
        /\ inner[i].type = inner[j].type
        /\ inner[i].media = inner[j].media

\* C20: after a run, first or later, no <picture> block holds two tool-marked
\* <source> elements with the same type and media, whatever raster extension
\* (.jpg, .jpeg, .png, .webp) the image has.
C20_NoDuplicateSources ==
    imgRuns >= 1 =>
        \A b \in 1..Len(findPictureBlocks(imgDoc)) :
            ~DuplicateSources(findPictureBlocks(imgDoc)[b].inner)

-----------------------------------------------------------------------------
(* Picture specification: processDocument applied, up to MaxImgRuns times, *)
(* to a document that is one <picture> block whose inner markup is any     *)
(* sequence of up to MaxPicLen tags of PicAlphabet.                        *)

MaxPicLen == 3

PicAlphabet ==
    {Txt, Source("image/webp", "", FALSE), Source("image/webp", MobileMedia, FALSE),
     Source("image/jpeg", MobileMedia, FALSE), Source("image/png", "", FALSE),
     Img("w.jpg", ""), Img("s.png", ""), Img("v.webp", ""), Img("i.svg", ""),
     Img("e.jpg", "")}

PicInit ==
    /\ \E inner \in SeqsUpTo(PicAlphabet, MaxPicLen) :
          imgDoc = <<PicOpen>> \o inner \o <<PicClose>>
    /\ imgPrevDoc = imgDoc
    /\ imgFs = ImgOriginals
    /\ imgResult = [changed |-> FALSE, threw |-> FALSE]
    /\ imgPrevResult = [changed |-> FALSE, threw |-> FALSE]
    /\ imgRuns = 0
    /\ NotImgIdle

SpecPicture == PicInit /\ [][ProcessDocument]_vars

\* the file the first <img> of a block names, NoPath when there is none
BlockImage(inner) ==
    LET imgs == {i \in 1..Len(inner) : inner[i].k = "img"}
    IN  IF imgs = {} THEN NoPath
        ELSE RefPath(extractSrc(CheerioSrc(inner[Min(imgs)])))

\* the source categories of an image: type and media of the mobile WebP, the
\* mobile original-format and the desktop WebP source
SourceCategories(ext, mobile) ==
    (IF mobile
     THEN << [type |-> "image/webp", media |-> MobileMedia],
             [type |-> MimeOf(ext), media |-> MobileMedia] >>
     ELSE <<>>) \o << [type |-> "image/webp", media |-> ""] >>

\* a tool-marked source for every category that no source of inner has,
\* marked or not
MissingSources(inner, categories) ==
    LET missing == SelectSeq(categories, LAMBDA c :
                       \A i \in 1..Len(inner) :
                           ~(inner[i].k = "source" /\ inner[i].type = c.type
                             /\ inner[i].media = c.media))
    IN  [n \in 1..Len(missing) |-> Source(missing[n].type, missing[n].media, TRUE)]

\* new is old with the tags of added put in at one place
InsertedInto(old, new, added) ==
    \E p \in 0..Len(old) :
        new = SubSeq(old, 1, p) \o added \o SubSeq(old, p + 1, Len(old))

\* the last run returned, and the document it started from had only
\* <picture> blocks to rewrite
PictureBlocksRewritten ==
    /\ imgRuns >= 1
    /\ ~imgResult.threw
    /\ findStandaloneImages(imgPrevDoc) = <<>>
    /\ findPictureBlocks(imgPrevDoc) # <<>>

\* C21: processPictureFragment inserts a <source> for an applicable category
\* exactly when the block has no <source> with that category's type and
\* media, with or without the marker attribute; when no applicable category
\* is missing the block's text is unchanged.
C21_SourceInsertedIffCategoryMissing ==
    PictureBlocksRewritten =>
        /\ Len(findPictureBlocks(imgDoc)) = Len(findPictureBlocks(imgPrevDoc))
        /\ \A b \in 1..Len(findPictureBlocks(imgPrevDoc)) :
              LET old == findPictureBlocks(imgPrevDoc)[b].inner
                  new == findPictureBlocks(imgDoc)[b].inner
                  image == BlockImage(old)
              IN  (image \in DOMAIN ImgOriginals /\ image.ext \in RasterExts) =>
                      InsertedInto(old, new,
                          MissingSources(old,
                              SourceCategories(image.ext,
                                  ImgOriginals[image].width > OnlyDownscaleIfWiderThan)))

\* a block with an unmarked desktop WebP source got the two mobile sources
\* and no second desktop WebP source
C21_Witness ==
    /\ PictureBlocksRewritten
    /\ imgPrevDoc = <<PicOpen, Source("image/webp", "", FALSE), Img("w.jpg", ""), PicClose>>
    /\ imgDoc = <<PicOpen, Source("image/webp", MobileMedia, TRUE),
                  Source("image/jpeg", MobileMedia, TRUE),
                  Source("image/webp", "", FALSE), Img("w.jpg", ""), PicClose>>

\* the four mobile derivative paths of an image
MobilePaths(image) ==
    LET derivatives == buildDerivatives(image)
    IN  {derivatives.mob1x, derivatives.mob2x, derivatives.mob1xWebp, derivatives.mob2xWebp}

\* inner has a tool-marked source with the mobile media query
HasMobileSource(inner) ==
    \E i \in 1..Len(inner) :
        inner[i].k = "source" /\ inner[i].marker /\ inner[i].media = MobileMedia

AllMarkedSources(t) == \A i \in 1..Len(t) : t[i].k = "source" /\ t[i].marker

\* seg is what a rewrite may put in place of the <picture> block with this
\* inner markup: the block itself, with tool-marked sources put in at one place
PictureRewrite(inner, seg) ==
    LET n == Len(seg) - 2 - Len(inner)
    IN  /\ n >= 0
        /\ seg[1] = PicOpen
        /\ seg[Len(seg)] = PicClose
        /\ \E p \in 0..Len(inner) :
              /\ SubSeq(seg, 2, p + 1) = SubSeq(inner, 1, p)
              /\ AllMarkedSources(SubSeq(seg, p + 2, p + 1 + n))
              /\ SubSeq(seg, p + 2 + n, Len(seg) - 1) = SubSeq(inner, p + 1, Len(inner))

\* seg is what a rewrite may put in place of a standalone <img>: the tag
\* itself, or the tag wrapped in <picture> after tool-marked sources
ImgRewrite(imgTag, seg) ==
    \/ seg = <<imgTag>>
    \/ /\ Len(seg) >= 3
       /\ seg[1] = PicOpen
       /\ AllMarkedSources(SubSeq(seg, 2, Len(seg) - 2))
       /\ seg[Len(seg) - 1] = imgTag
       /\ seg[Len(seg)] = PicClose

\* the regions of a document: its <picture> blocks and its standalone <img>
\* tags, each with the span [start, end) it occupies
Regions(text) ==
    {[start |-> findPictureBlocks(text)[b].start, end |-> findPictureBlocks(text)[b].end,
      picture |-> TRUE] : b \in 1..Len(findPictureBlocks(text))}
    \cup {[start |-> findStandaloneImages(text)[b].start,
           end |-> findStandaloneImages(text)[b].end,
           picture |-> FALSE] : b \in 1..Len(findStandaloneImages(text))}

\* no two regions share a position
DisjointRegions(text) ==
    \A r1, r2 \in Regions(text) :
        r1 # r2 => (r1.end <= r2.start \/ r2.end <= r1.start)

RECURSIVE SplicedFrom(_, _, _, _)
\* after[j..] is before[i..] with every region replaced, on its own span, by a
\* rewrite of that region, and everything between the regions as it was
SplicedFrom(before, i, after, j) ==
    IF i > Len(before) THEN j > Len(after)
    ELSE LET here == {r \in Regions(before) : r.start = i}
         IN  IF here = {}
             THEN /\ j <= Len(after)
                  /\ after[j] = before[i]
                  /\ SplicedFrom(before, i + 1, after, j + 1)
             ELSE \E r \in here : \E len \in 1..(Len(after) - j + 1) :
                      /\ IF r.picture
                         THEN PictureRewrite(SubSeq(before, r.start + 1, r.end - 2),
                                             SubSeq(after, j, j + len - 1))
                         ELSE ImgRewrite(before[r.start], SubSeq(after, j, j + len - 1))
                      /\ SplicedFrom(before, r.end, after, j + len)

\* C23: when a run replaces several regions by texts of other lengths, each
\* replacement lands on its own region's span and every tag outside the
\* rewritten regions is preserved, in its original order.
C23_ReplacementsLandOnTheirSpans ==
    (imgRuns >= 1 /\ DisjointRegions(imgPrevDoc)) =>
        SplicedFrom(imgPrevDoc, 1, imgDoc, 1)

\* two standalone images with a text between them, both wrapped, the first
\* replacement longer than the second
C23_Witness ==
    /\ imgRuns >= 1
    /\ imgPrevDoc = <<Img("w.jpg", ""), Txt, Img("s.png", "")>>
    /\ imgDoc = <<PicOpen, Source("image/webp", MobileMedia, TRUE),
                  Source("image/jpeg", MobileMedia, TRUE), Source("image/webp", "", TRUE),
                  Img("w.jpg", ""), PicClose, Txt,
                  PicOpen, Source("image/webp", "", TRUE), Img("s.png", ""), PicClose>>

--------------------------------------------------------------------------------
\* Configuration values.  A config is a function from keys to values; a value
\* is an object (its own function from keys to values), an array, a number or
\* a flag.

Obj(f) == [f |-> f]
Arr(items) == [items |-> items]
Num(n) == [n |-> n]
Flag(b) == [b |-> b]

\* typeof v === 'object' && !Array.isArray(v)
IsObj(v) == "f" \in DOMAIN v

\* { ...a, ...b }
Spread(a, b) == [k \in DOMAIN a \cup DOMAIN b |-> IF k \in DOMAIN b THEN b[k] ELSE a[k]]

DEFAULT_CONFIG ==
    Spread(Spread(
        [imageOptimization |-> Obj([jpgQuality |-> Num(78), webpQuality |-> Num(80)])],
        [textProcessing |-> Obj([hangingPrepositions |->
                                    Obj([enabled |-> Flag(TRUE),
                                         fileExtensions |-> Arr(<<".html">>),
                                         prepositions |-> Arr(<<"a", "b">>)])])]),
        [cssOptimization |-> Obj([enabled |-> Flag(TRUE),
                                  fileExtensions |-> Arr(<<".css", ".scss">>)])])

\* a merge that keeps the user's value for every key the user names
ShallowMerge(defaultConfig, userConfig) == Spread(defaultConfig, userConfig)

mergeConfigs(defaultConfig, userConfig) ==
    [key \in DOMAIN defaultConfig \cup DOMAIN userConfig |->
        IF key \notin DOMAIN userConfig THEN defaultConfig[key]
        ELSE IF IsObj(userConfig[key]) /\ key \in DOMAIN defaultConfig
                /\ IsObj(defaultConfig[key])
        THEN Obj(Spread(defaultConfig[key].f, userConfig[key].f))
        ELSE userConfig[key]]

\* a validation that accepts every configuration
AcceptAll(config, rootExists) == {}

validateConfig(config, rootExists) ==
    (IF ~rootExists THEN {"Project root does not exist"} ELSE {})
    \cup (IF config.imageOptimization.f.jpgQuality.n < 1
             \/ config.imageOptimization.f.jpgQuality.n > 100
          THEN {"JPG quality must be between 1 and 100"} ELSE {})
    \cup (IF config.imageOptimization.f.webpQuality.n < 1
             \/ config.imageOptimization.f.webpQuality.n > 100
          THEN {"WebP quality must be between 1 and 100"} ELSE {})
    \cup (IF Len(config.cssOptimization.f.fileExtensions.items) = 0
          THEN {"CSS optimization file extensions cannot be empty"} ELSE {})

\* an exit code that ignores the recorded errors
ExitZero(errors) == 0

\* runCommand after the report: exit 1 if there were errors
ExitAfterProcessing(errors) == IF errors > 0 THEN 1 ELSE 0

\* One command line run: load and validate the configuration, choose the
\* modules, process the files, write the report, exit.

MaxRunErrors == 2

ImageParts ==
    {<<>>}
    \cup {[imageOptimization |-> Obj([jpgQuality |-> Num(j)])] : j \in {0, 1, 100, 101}}
    \cup {[imageOptimization |-> Obj([webpQuality |-> Num(w)])] : w \in {0, 90}}
    \cup {[imageOptimization |-> Obj([jpgQuality |-> Num(85), webpQuality |-> Num(101)])]}

TextParts ==
    {<<>>,
     [textProcessing |-> Obj([hangingPrepositions |-> Obj([enabled |-> Flag(FALSE)])])]}

CssParts ==
    {<<>>} \cup {[cssOptimization |-> Obj([fileExtensions |-> Arr(e)])] :
                    e \in {<<>>, <<".less">>}}

UserConfigs ==
    {Spread(Spread(i, t), c) : i \in ImageParts, t \in TextParts, c \in CssParts}

\* modules = 0 with skipMenu: the modules named on the command line are all
\* unknown
RunInit ==
    /\ runUser \in UserConfigs
    /\ runEnv \in [loadable : BOOLEAN, rootExists : BOOLEAN, skipMenu : BOOLEAN,
                   modules : 0..1]
    /\ runConfig = DEFAULT_CONFIG
    /\ runErrors = {}
    /\ runPc = "start"
    /\ runExit = -1
    /\ runScans = 0
    /\ runResult = [errors |-> 0, threw |-> FALSE]
    /\ runReport = "none"
    /\ NotRunIdle

\* process.exit(code)
RunExits(code) ==
    /\ runPc' = "exited"
    /\ runExit' = code

\* ConfigManager.loadConfig: a config file that cannot be loaded leaves the
\* defaults in place
LoadConfig ==
    /\ runPc = "start"
    /\ runConfig' = IF runEnv.loadable THEN mergeConfigs(DEFAULT_CONFIG, runUser)
                    ELSE DEFAULT_CONFIG
    /\ runPc' = "loaded"
    /\ UNCHANGED <<runUser, runEnv, runErrors, runExit, runScans, runResult, runReport,
                   notRunVars>>

ValidateConfig ==
    /\ runPc = "loaded"
    /\ runErrors' = validateConfig(runConfig, runEnv.rootExists)
    /\ IF runErrors' # {} THEN RunExits(1)
       ELSE runPc' = "validated" /\ UNCHANGED runExit
    /\ UNCHANGED <<runUser, runEnv, runConfig, runScans, runResult, runReport, notRunVars>>

SelectModules ==
    /\ runPc = "validated"
    /\ IF runEnv.skipMenu /\ runEnv.modules = 0 THEN RunExits(1)
       ELSE /\ runPc' = IF runEnv.skipMenu THEN "confirmed" ELSE "selected"
            /\ UNCHANGED runExit
    /\ UNCHANGED <<runUser, runEnv, runConfig, runErrors, runScans, runResult, runReport,
                   notRunVars>>

\* the quick scan processFiles([]) and the confirmation prompt
ConfirmProcessing ==
    /\ runPc = "selected"
    /\ runScans' = runScans + 1
    /\ \E scanThrew \in BOOLEAN, confirmed \in BOOLEAN :
          IF scanThrew THEN RunExits(1)
          ELSE IF ~confirmed THEN RunExits(0)
          ELSE runPc' = "confirmed" /\ UNCHANGED runExit
    /\ UNCHANGED <<runUser, runEnv, runConfig, runErrors, runResult, runReport, notRunVars>>

\* processFiles(selectedModules): it returns a result with some number of
\* recorded errors, or records a fatal error and rejects
ProcessFiles ==
    /\ runPc = "confirmed"
    /\ runScans' = runScans + 1
    /\ \E outcome \in {[errors |-> n, threw |-> FALSE] : n \in 0..MaxRunErrors}
                      \cup {[errors |-> 1, threw |-> TRUE]} :
          /\ runResult' = outcome
          /\ IF outcome.threw THEN RunExits(1)
             ELSE runPc' = "processed" /\ UNCHANGED runExit
    /\ UNCHANGED <<runUser, runEnv, runConfig, runErrors, runReport, notRunVars>>

\* logger.generateReport and the exit that follows; a rejected report is
\* caught by the handler that exits with 1
FinishRun ==
    /\ runPc = "processed"
    /\ \E written \in BOOLEAN :
          /\ runReport' = IF written THEN "written" ELSE "failed"
          /\ IF ~written THEN RunExits(1)
             ELSE IF ExitAfterProcessing(runResult.errors) = 1 THEN RunExits(1)
             ELSE runPc' = "done" /\ runExit' = 0
    /\ UNCHANGED <<runUser, runEnv, runConfig, runErrors, runScans, runResult, notRunVars>>

RunNext ==
    \/ LoadConfig
    \/ ValidateConfig
    \/ SelectModules
    \/ ConfirmProcessing
    \/ ProcessFiles
    \/ FinishRun

SpecRun == RunInit /\ [][RunNext]_vars

RECURSIVE DeepMerge(_, _)
\* the user's value for every path the user names, the default otherwise
DeepMerge(d, u) ==
    [k \in DOMAIN d \cup DOMAIN u |->
        IF k \notin DOMAIN u THEN d[k]
        ELSE IF k \notin DOMAIN d THEN u[k]
        ELSE IF IsObj(d[k]) /\ IsObj(u[k]) THEN Obj(DeepMerge(d[k].f, u[k].f))
        ELSE u[k]]

\* C11: the merged configuration has, for every option path at any depth, the
\* user's value where the user names the path and the default value otherwise.
C11_MergeIsDeep ==
    (runPc \notin {"idle", "start"} /\ runEnv.loadable) =>
        runConfig = DeepMerge(DEFAULT_CONFIG, runUser)

\* validateConfig has been called
RunValidated == runPc \notin {"idle", "start", "loaded"}

\* both qualities in 1..100, a non-empty extension list, an existing root
RunConfigInRange ==
    /\ runConfig.imageOptimization.f.jpgQuality.n \in 1..100
    /\ runConfig.imageOptimization.f.webpQuality.n \in 1..100
    /\ runConfig.cssOptimization.f.fileExtensions.items # <<>>
    /\ runEnv.rootExists

\* C12: validateConfig reports an error exactly when a quality is outside
\* 1..100, the CSS extension list is empty or the project root is missing; and
\* when it reports one, the run has exited with 1 without a single processFiles
\* call (no document scanned, read or written, no derivative or backup made).
C12_InvalidConfigStopsRun ==
    RunValidated =>
        /\ (runErrors = {}) <=> RunConfigInRange
        /\ runErrors # {} => (runPc = "exited" /\ runExit = 1 /\ runScans = 0)

\* a run stopped by a configuration out of range
C12_Witness ==
    /\ RunValidated
    /\ ~RunConfigInRange
    /\ runErrors # {}
    /\ runPc = "exited"

\* processFiles has returned its result and the run is over
RunReturned == runReport # "none" /\ runPc \in {"exited", "done"}

\* C13 (as stated): the run exits with 1 whenever the result holds a recorded
\* error, and ends without a non-zero exit when no error was recorded.
C13_ExitOneIffErrors ==
    RunReturned =>
        /\ runResult.errors > 0 => runExit = 1
        /\ runResult.errors = 0 => runExit = 0

\* C13 (amended): the run exits with 1 whenever the result holds a recorded
\* error, and ends without a non-zero exit when no error was recorded and the
\* report was written; a report that cannot be written makes the run exit with
\* 1 even though no error was recorded.
C13_ExitOneIffErrorsOrNoReport ==
    RunReturned =>
        /\ runResult.errors > 0 => runExit = 1
        /\ (runResult.errors = 0 /\ runReport = "written") => runExit = 0
        /\ runReport = "failed" => runExit = 1

\* a run that recorded errors, wrote its report and exited with 1
C13_Witness ==
    /\ RunReturned
    /\ runResult.errors > 0
    /\ runReport = "written"
    /\ runExit = 1

-----------------------------------------------------------------------------
(* The text stage of one document: the menu selection, then                *)
(* TextProcessor.processDocument on a file with a name and a content.      *)

\* path.extname(filePath).toLowerCase(): the last dot-separated piece
LowerExt(e) == IF e = ".HTML" THEN ".html" ELSE e
getExtension(name) == IF Len(name) < 2 THEN "" ELSE LowerExt(name[Len(name)])

\* DEFAULT_CONFIG.textProcessing.hangingPrepositions.fileExtensions
FileExtensions == {".html", ".blade.php", ".vue"}

shouldProcessFile(flags, name) ==
    \/ flags.hanging /\ getExtension(name) \in FileExtensions
    \/ flags.superscript /\ getExtension(name) \in FileExtensions

\* filePath.endsWith('.vue')
EndsWithVue(name) == Len(name) >= 1 /\ name[Len(name)] = ".vue"

\* </template> stands at position c of t
TemplateCloseAt(t, c) ==
    /\ c + 3 <= Len(t)
    /\ t[c] = "<" /\ t[c + 1] = "/" /\ t[c + 2] = "template" /\ t[c + 3] = ">"

\* content.match(/<template[^>]*>([\s\S]*?)<\/template>/): the first and last
\* position of the captured template content, found = FALSE for no match
TemplateMatch(t) ==
    LET tagEnd(i) == Min({g \in (i + 2)..Len(t) : t[g] = ">"})
        opens == {i \in 1..(Len(t) - 1) :
                    /\ t[i] = "<" /\ t[i + 1] = "template"
                    /\ \E g \in (i + 2)..Len(t) : t[g] = ">"
                    /\ \E c \in (tagEnd(i) + 1)..Len(t) : TemplateCloseAt(t, c)}
    IN  IF opens = {} THEN [found |-> FALSE, first |-> 0, last |-> 0]
        ELSE LET g == tagEnd(Min(opens))
             IN  [found |-> TRUE, first |-> g + 1,
                  last |-> Min({c \in (g + 1)..Len(t) : TemplateCloseAt(t, c)}) - 1]

\* templateMatch[1], the template content; empty when nothing matched
TemplateContent(t) ==
    IF TemplateMatch(t).found
    THEN SubSeq(t, TemplateMatch(t).first, TemplateMatch(t).last) ELSE <<>>

\* processVueFile of either rewriter: only the template content goes through
\* the rewriter's loop, whose result is r, and the file changes only if the
\* loop replaced something
processVueFile(t, r) ==
    LET m == TemplateMatch(t)
    IN  IF ~m.found THEN [content |-> t, replacements |-> 0]
        ELSE IF r.replacements > 0
        THEN [content |-> SubSeq(t, 1, m.first - 1) \o r.content
                          \o SubSeq(t, m.last + 1, Len(t)),
              replacements |-> r.replacements]
        ELSE [content |-> t, replacements |-> r.replacements]

\* HangingPrepositionsProcessor.processText with its enabled check and its
\* .vue branch
HangingProcessFile(flags, t, name) ==
    IF ~flags.hanging \/ Prepositions = <<>> THEN [content |-> t, replacements |-> 0]
    ELSE IF EndsWithVue(name)
    THEN processVueFile(t, HangingProcessText(TemplateContent(t), Prepositions))
    ELSE HangingProcessText(t, Prepositions)

\* SuperscriptReplacer.processText with its enabled check and its .vue branch
SuperscriptProcessFile(flags, t, name) ==
    IF ~flags.superscript \/ Replacements = <<>> THEN [content |-> t, replacements |-> 0]
    ELSE IF EndsWithVue(name)
    THEN processVueFile(t, SuperscriptProcessText(TemplateContent(t), Replacements))
    ELSE SuperscriptProcessText(t, Replacements)

\* TextProcessor.processDocument: the content it leaves in the file and what
\* it returns
TextProcessDocument(flags, name, t) ==
    IF ~shouldProcessFile(flags, name)
    THEN [content |-> t, changed |-> FALSE, hangingPrepositionsFixed |-> 0,
          superscriptReplacements |-> 0]
    ELSE Only({
           Only({ [content |-> u.content, changed |-> u.content # t,
                   hangingPrepositionsFixed |-> h.replacements,
                   superscriptReplacements |-> u.replacements] :
                  u \in {IF flags.superscript
                         THEN SuperscriptProcessFile(flags, h.content, name)
                         ELSE [content |-> h.content, replacements |-> 0]} }) :
           h \in {IF flags.hanging THEN HangingProcessFile(flags, t, name)
                  ELSE [content |-> t, replacements |-> 0]} })

\* Documents of up to MaxDocWords pieces of DocWords, under every name of
\* DocNames, every pair of enabled flags and every selection of DocSelections

MaxDocWords == 3

DocWords ==
    { <<"a", " ", "x">>, <<" ", "m", "2">>,
      <<"<", "script", ">">>, <<"<", "/", "script", ">">>,
      <<"<", "template", ">">>, <<"<", "/", "template", ">">> }

DocNames ==
    { <<"x", ".html">>, <<"x", ".HTML">>, <<"x", ".blade", ".php">>, <<"x", ".vue">>,
      <<"x", ".css">> }

MenuChoices ==
    {"text-processing-prepositions", "text-processing-superscript", "css-optimization", "all"}

DocSelections ==
    {{c} : c \in MenuChoices}
    \cup {{"text-processing-prepositions", "text-processing-superscript"}}

DocInit ==
    /\ docName \in DocNames
    /\ docFlags \in [hanging : BOOLEAN, superscript : BOOLEAN]
    /\ docSelection \in DocSelections
    /\ docModules = {}
    /\ docPrefs = [stored |-> FALSE, prepositions |-> FALSE, superscript |-> FALSE]
    /\ docText \in {Flatten(ws) : ws \in SeqsUpTo(DocWords, MaxDocWords)}
    /\ docBefore = docText
    /\ docResult = [changed |-> FALSE, hangingPrepositionsFixed |-> 0,
                    superscriptReplacements |-> 0]
    /\ docPc = "menu"
    /\ NotDocIdle

\* InteractiveMenu.showMainMenu from the answer on: the modules it returns
\* and the preferences storeTextProcessingPreferences leaves in the global
ShowMainMenu ==
    /\ docPc = "menu"
    /\ docModules' =
          (IF docSelection \cap {"text-processing-prepositions",
                                 "text-processing-superscript", "all"} # {}
           THEN {"text-processing"} ELSE {})
          \cup (IF docSelection \cap {"css-optimization", "all"} # {}
                THEN {"css-optimization"} ELSE {})
    /\ docPrefs' = [stored |-> TRUE,
                    prepositions |-> docSelection \cap {"text-processing-prepositions",
                                                        "all"} # {},
                    superscript |-> docSelection \cap {"text-processing-superscript",
                                                       "all"} # {}]
    /\ docPc' = "selected"
    /\ UNCHANGED <<docName, docFlags, docSelection, docText, docBefore, docResult,
                   notDocVars>>

\* the text stage of processFiles for the document, text-processing selected
ProcessTextDocument ==
    /\ docPc = "selected"
    /\ "text-processing" \in docModules
    /\ \E r \in {TextProcessDocument(docFlags, docName, docText)} :
          /\ docText' = r.content
          /\ docResult' = [changed |-> r.changed,
                           hangingPrepositionsFixed |-> r.hangingPrepositionsFixed,
                           superscriptReplacements |-> r.superscriptReplacements]
    /\ docBefore' = docText
    /\ docPc' = "processed"
    /\ UNCHANGED <<docName, docFlags, docSelection, docModules, docPrefs, notDocVars>>

\* the text stage of processFiles for the document, text-processing not selected
SkipTextDocument ==
    /\ docPc = "selected"
    /\ "text-processing" \notin docModules
    /\ docPc' = "processed"
    /\ UNCHANGED <<docName, docFlags, docSelection, docModules, docPrefs, docText,
                   docBefore, docResult, notDocVars>>

DocNext == ShowMainMenu \/ ProcessTextDocument \/ SkipTextDocument

SpecDoc == DocInit /\ [][DocNext]_vars

\* the dot-separated pieces of a configured extension
ExtPieces(e) == IF e = ".blade.php" THEN <<".blade", ".php">> ELSE <<e>>

\* the file name ends, letter case aside, with one of the configured extensions
EndsWithConfiguredExtension(name) ==
    \E e \in FileExtensions :
        LET n == Len(ExtPieces(e))
        IN  /\ Len(name) >= n
            /\ \A k \in 1..n : LowerExt(name[Len(name) - n + k]) = ExtPieces(e)[k]

\* the text stage reached the document and a feature would change its text
DocHasWork ==
    /\ docPc = "processed"
    /\ "text-processing" \in docModules
    /\ \/ docFlags.hanging /\ HangingProcessText(docBefore, Prepositions).replacements > 0
       \/ docFlags.superscript
            /\ SuperscriptProcessText(docBefore, Replacements).replacements > 0

\* C25: a file is text-processed exactly when a text feature is enabled and
\* its name ends with one of the configured extensions; a .blade.php file is
\* processed under the default configuration.
C25_ProcessedIffConfiguredExtension ==
    (DocHasWork /\ ~EndsWithVue(docName)) =>
        ((docResult.hangingPrepositionsFixed + docResult.superscriptReplacements > 0)
            <=> EndsWithConfiguredExtension(docName))

\* C29: after a menu selection with 'text-processing-prepositions' but neither
\* 'text-processing-superscript' nor 'all', the run makes no superscript
\* replacement in the document, and after a superscript-only selection it
\* makes no hanging-preposition replacement.
C29_PreferencesGateSubFeatures ==
    docPc = "processed" =>
        /\ (/\ "text-processing-prepositions" \in docSelection
            /\ docSelection \cap {"text-processing-superscript", "all"} = {})
               => (docResult.superscriptReplacements = 0 /\ ~docPrefs.superscript)
        /\ (/\ "text-processing-superscript" \in docSelection
            /\ docSelection \cap {"text-processing-prepositions", "all"} = {})
               => (docResult.hangingPrepositionsFixed = 0 /\ ~docPrefs.prepositions)

\* <script> opens at position i of t, </script> stands at position c of t
ScriptOpenAt(t, i) ==
    i + 2 <= Len(t) /\ t[i] = "<" /\ t[i + 1] = "script" /\ t[i + 2] = ">"

ScriptCloseAt(t, c) ==
    /\ c + 3 <= Len(t)
    /\ t[c] = "<" /\ t[c + 1] = "/" /\ t[c + 2] = "script" /\ t[c + 3] = ">"

\* the texts between each <script> and the </script> that follows it, in
\* document order, from position i on
RECURSIVE ScriptSections(_, _)
ScriptSections(t, i) ==
    IF i > Len(t) THEN <<>>
    ELSE IF ScriptOpenAt(t, i) /\ \E c \in (i + 3)..Len(t) : ScriptCloseAt(t, c)
    THEN LET c == Min({k \in (i + 3)..Len(t) : ScriptCloseAt(t, k)})
         IN  <<SubSeq(t, i + 3, c - 1)>> \o ScriptSections(t, c + 4)
    ELSE ScriptSections(t, i + 1)

\* C30: in a document that is not a .vue file the two text rewriters leave
\* the text between <script> and </script> exactly as it was.
C30_ScriptSectionsUntouched ==
    (docPc = "processed" /\ ~EndsWithVue(docName))
        => ScriptSections(docText, 1) = ScriptSections(docBefore, 1)

-----------------------------------------------------------------------------
(* Backups: the image rewriter over documents that name a PNG large enough *)
(* to be recompressed in place, a wide JPEG, and the PNG's backup path.    *)

MaxBackupLen == 3

BackupAlphabet ==
    {PicOpen, PicClose, Img("b.png", ""), Img("w.jpg", ""), Img("b_orig.png", "")}

BackupOriginals ==
    (BPng :> File(PngRecompressOptions.sizeThreshold, 500, 250, "png"))
    @@ (WJpg :> File(9, 1000, 500, "jpeg"))

BackupInit ==
    /\ imgDoc \in SeqsUpTo(BackupAlphabet, MaxBackupLen)
    /\ imgPrevDoc = imgDoc
    /\ imgFs = BackupOriginals
    /\ imgResult = [changed |-> FALSE, threw |-> FALSE]
    /\ imgPrevResult = [changed |-> FALSE, threw |-> FALSE]
    /\ imgRuns = 0
    /\ NotImgIdle

SpecBackup == BackupInit /\ [][ProcessDocument]_vars

\* the backup of image p, if there is one, holds what p held before the
\* first run, and p has not changed without a backup
BackupKeepsOriginal(p) ==
    /\ BackupPath(p) \in DOMAIN imgFs => imgFs[BackupPath(p)] = BackupOriginals[p]
    /\ imgFs[p] # BackupOriginals[p] => BackupPath(p) \in DOMAIN imgFs

\* the document has an image tag whose reference is the path p
DocReferences(doc, p) ==
    \E i \in 1..Len(doc) : doc[i].k = "img" /\ RefPath(extractSrc(doc[i].src)) = p

\* C26 (as stated): after any number of runs the backup of every image holds
\* the image's content from before the first run, and no image is changed in
\* place before its backup exists.
C26_BackupKeepsOriginal ==
    \A p \in DOMAIN BackupOriginals : BackupKeepsOriginal(p)

\* C26 (amended): the same, for every image whose backup path is not itself
\* referenced as an image by the document.
C26_BackupKeepsOriginalUnlessReferenced ==
    \A p \in DOMAIN BackupOriginals :
        ~DocReferences(imgDoc, BackupPath(p)) => BackupKeepsOriginal(p)

\* two runs, the PNG recompressed in place, its backup still the original
C26_Witness ==
    /\ imgRuns = 2
    /\ imgFs[BPng] # BackupOriginals[BPng]
    /\ BackupPath(BPng) \in DOMAIN imgFs
    /\ imgFs[BackupPath(BPng)] = BackupOriginals[BPng]
    /\ ~DocReferences(imgDoc, BackupPath(BPng))

\* C27: every document in which an enabled stage failed, the CSS stage
\* included, has an error entry in the errors of the batch result.
C27_EveryStageFailureRecorded ==
    \A i \in batchFailed : ErrorEntriesFor(i) >= 1

-----------------------------------------------------------------------------
(* Path resolver.  The project has four directories: "doc" is the          *)
(* directory of the document, "public" the public root, "other" any other  *)
(* directory of the project, "vendor" one that the project-wide search     *)
(* ignores.  A reference is a prefix ("", "./" or "/") and a file name; the *)
(* empty reference has both empty.                                         *)

ProjectDirs == {"doc", "public", "other", "vendor"}
IgnoredDirs == {"vendor"}
RefNames == {"a.png", "i.svg"}

\* path.extname(name).toLowerCase() without its dot
ExtOfName(name) ==
    IF name = "a.png" THEN "png" ELSE IF name = "i.svg" THEN "svg" ELSE ""

\* fg(`**/${normalized}`, { cwd: projectRoot, ignore: [...] }): the leading
\* './' or '/' is stripped, every file of that name outside the ignored
\* directories matches
SearchCandidates(files, ref) ==
    {f \in files : f.name = ref.name /\ f.dir \notin IgnoredDirs}

\* PathResolver.resolveImagePath: the values it may return
resolveImagePathSteps(files, ref) ==
    IF ref.prefix = "" /\ ref.name = "" THEN {NoLoc}
    ELSE IF ref.prefix = "/"
    THEN (IF Loc("public", ref.name) \in files THEN {Loc("public", ref.name)}
          ELSE {NoLoc})
    ELSE IF Loc("doc", ref.name) \in files THEN {Loc("doc", ref.name)}
    ELSE IF Loc("public", ref.name) \in files THEN {Loc("public", ref.name)}
    ELSE LET rasterCandidates ==
                 {c \in SearchCandidates(files, ref) : ExtOfName(c.name) \in RasterExts}
         IN  IF rasterCandidates = {} THEN {NoLoc} ELSE rasterCandidates

ResInit ==
    /\ resRef \in [prefix : {"", "./", "/"}, name : RefNames]
                  \cup {[prefix |-> "", name |-> ""]}
    /\ resFiles \in SUBSET {Loc(dir, name) : dir \in ProjectDirs, name \in RefNames}
    /\ resResult = NoLoc
    /\ resPc = "start"
    /\ NotResIdle

Resolve ==
    /\ resPc = "start"
    /\ resResult' \in resolveImagePathSteps(resFiles, resRef)
    /\ resPc' = "done"
    /\ UNCHANGED <<resRef, resFiles, notResVars>>

SpecResolve == ResInit /\ [][Resolve]_vars

\* the files each of the four steps finds for a reference: (a) a reference
\* that starts with '/' joined to the public root, (b) relative to the
\* directory of the document, (c) relative to the public root, (d) anywhere
\* in the searched project tree
StepFinds(files, ref, step) ==
    IF step = 1 THEN {f \in {Loc("public", ref.name)} : ref.prefix = "/" /\ f \in files}
    ELSE IF step = 2 THEN {f \in {Loc("doc", ref.name)} : ref.prefix # "/" /\ f \in files}
    ELSE IF step = 3 THEN {f \in {Loc("public", ref.name)} : f \in files}
    ELSE SearchCandidates(files, ref)

\* C28: resolveImagePath returns a file found by the first of the four steps
\* that finds one, and null only if none of the four steps finds a file.
C28_FirstOfFourSteps ==
    (resPc = "done" /\ resRef.name # "") =>
        LET finding == {k \in 1..4 : StepFinds(resFiles, resRef, k) # {}}
        IN  IF finding = {} THEN resResult = NoLoc
            ELSE resResult \in StepFinds(resFiles, resRef, Min(finding))

====
